---------------------------- MODULE Spec2Model ----------------------------
(***************************************************************************)
(* SkyportRush: the enemy manager (AlienEnemyManager), its wave scheduler  *)
(* and the collision system (CollisionSystem).                             *)
(*                                                                         *)
(* Units.  Lengths are in tenths of a world unit, times in ticks of 25 ms  *)
(* (40 to the second), health and damage in points.  Distances are         *)
(* compared by their squares, so every threshold test of the code is       *)
(* exact.  The world is cut down to the line z = 0: of the eight spawn     *)
(* points the two on that line are used, and a random patrol offset has no *)
(* z part.  On that line a flattened direction normalises to +1 or -1.     *)
(***************************************************************************)
EXTENDS Integers, Sequences, FiniteSets, TLC

(***************************************************************************)
(* Bounds of the model.                                                    *)
(***************************************************************************)
MaxWaveEnemies == 2      \* a wave's enemy count is cut down to this
MaxEnemies == 1          \* agents in the active collection, behaviour runs
MaxWavesRun == 1         \* spawnWave calls of a behaviour or damage run
MaxSteps == 4            \* update ticks and outside calls of a behaviour run
MaxDamageCalls == 3      \* damageEnemy calls of a damage run
MaxDamageTicks == 1      \* update ticks of a damage run
MaxDispatched == 2       \* waves dispatched from outside in a scheduler run
WaveHorizon == 2500      \* wall-clock length of a scheduler run, 62.5 s

(***************************************************************************)
(* Program constants.                                                      *)
(***************************************************************************)
NumWaves == 5            \* initializeWaves: five wave definitions
WaveInterval == 1200     \* 30 s, updateWaveSpawning
LowWater == 5            \* enemies.length < 5, updateWaveSpawning
GroundCooldown == 80     \* 2000 ms, updateEnemyAttack
FlyerCooldown == 60      \* 1500 ms, updateEnemyAttack
PatrolArrive == 20       \* distanceTo(patrolTarget) < 2
MoveThreshold == 5       \* direction.length() > 0.5
FlyerNear == 100         \* distanceToPlayer < 10
FlyerFar == 250          \* distanceToPlayer > 25
FlyerSpawnAltitude == 150 \* terrainHeight + 15 at spawn
RetreatStep == 50        \* awayDirection.multiplyScalar(5)
ChaseStep == 30          \* towardDirection.multiplyScalar(3)
Epoch == 4000            \* Date.now() at construction, far above any cooldown
CraterCell == 800        \* Math.floor(x / 80) * 80, craterNoise
CraterReach == 200       \* distance < 20, craterNoise
CraterDepth == 80        \* 8 - distance * 0.4, craterNoise
DefaultRadius == 5       \* radius: number = 0.5, checkCollision
UnitScale == 1000        \* a unit vector's length, in thousandths
SqrtMax == 1000          \* the largest square root taken

Types == {"scout", "warrior", "heavy", "flyer"}
GroundTypes == {"scout", "warrior", "heavy"}
Behaviors == {"patrol", "chase", "attack", "retreat"}

Abs(n) == IF n < 0 THEN -n ELSE n
Sign(n) == IF n < 0 THEN -1 ELSE IF n > 0 THEN 1 ELSE 0
Min(a, b) == IF a < b THEN a ELSE b
Max(a, b) == IF a > b THEN a ELSE b

\* F applied to the value of v, with v evaluated once.
Bind(F(_), v) == CHOOSE r \in {F(x) : x \in {v}} : TRUE

\* Vector3.distanceTo, squared, on the line z = 0.
Dist2(ax, ay, bx, by) == (ax - bx) * (ax - bx) + (ay - by) * (ay - by)

(***************************************************************************)
(* initializeWaves.  The enemy counts 8, 12, 15, 20, 25 are cut down to    *)
(* MaxWaveEnemies; pools and delays are the code's.                        *)
(***************************************************************************)
WaveCount(w) ==
  Min(CASE w = 0 -> 8 [] w = 1 -> 12 [] w = 2 -> 15 [] w = 3 -> 20 [] OTHER -> 25,
      MaxWaveEnemies)

WaveTypes(w) ==
  CASE w = 0 -> <<"scout", "scout", "scout", "warrior">>
    [] w = 1 -> <<"scout", "warrior", "warrior", "heavy">>
    [] w = 2 -> <<"warrior", "heavy", "flyer", "heavy">>
    [] w = 3 -> <<"flyer", "flyer", "warrior", "heavy">>
    [] OTHER -> <<"scout", "warrior", "heavy", "flyer">>

\* spawnDelay * 1000 ms in ticks: 2 s, 1.5 s, 1 s, 0.8 s, 0.5 s.
WaveDelay(w) ==
  CASE w = 0 -> 80 [] w = 1 -> 60 [] w = 2 -> 40 [] w = 3 -> 32 [] OTHER -> 20

\* setupEnemySpawners: the spawn points on the line z = 0 (x in tenths).
Spawners == <<800, -800>>

(***************************************************************************)
(* createEnemyMesh: the archetype's base stats.                            *)
(***************************************************************************)
BaseHealth(t) ==
  CASE t = "scout" -> 50 [] t = "warrior" -> 100 [] t = "heavy" -> 200 [] OTHER -> 75
BaseSpeed(t) ==
  CASE t = "scout" -> 12 [] t = "warrior" -> 8 [] t = "heavy" -> 4 [] OTHER -> 15
BaseDamage(t) ==
  CASE t = "scout" -> 15 [] t = "warrior" -> 25 [] t = "heavy" -> 40 [] OTHER -> 20
BaseDetection(t) ==
  CASE t = "scout" -> 250 [] t = "warrior" -> 200 [] t = "heavy" -> 150 [] OTHER -> 300
BaseAttackRange(t) ==
  CASE t = "scout" -> 80 [] t = "warrior" -> 60 [] t = "heavy" -> 100 [] OTHER -> 120

\* getEnemyHeightOffset.
getEnemyHeightOffset(t) ==
  CASE t = "scout" -> 10 [] t = "warrior" -> 15 [] t = "heavy" -> 20 [] OTHER -> 150

(***************************************************************************)
(* The height functions a caller may hand to setTerrainHeightFunction:     *)
(* pure functions of the place.  "none" is the field's initial null.       *)
(***************************************************************************)
HeightFns == {"steps", "slope"}

SuppliedHeight(fn, x) ==
  CASE fn = "steps" -> ((x \div 100) % 3) * 5
    [] fn = "slope" -> x \div 40
    [] OTHER -> 0

VARIABLES
  enemies,        \* this.enemies: the active collection, in array order
  enemyCount,     \* this.enemyCount: the next id
  completed,      \* waves[w].completed
  currentWave,    \* this.currentWave
  waveTimer,      \* this.waveTimer, in ticks of 25 ms
  timers,         \* pending setTimeout callbacks of spawnWave, by due time
  terrainFn,      \* this.terrainHeightFunction
  now,            \* Date.now(): the wall clock
  simTime,        \* the sum of the deltaTime of all update calls
  playerPos,      \* the playerPosition of the last update call
  waveLog,        \* per wave: dispatches, simulated time of dispatch, spawns
  autoLog,        \* what the last updateWaveSpawning saw and did
  lastOp,         \* the operation that led to this state
  nTicks,         \* update calls so far
  nCalls,         \* damageEnemy and setTerrainHeightFunction calls so far
  colliders,      \* CollisionSystem.colliders: the Map, in iteration order
  lastCheck,      \* the last checkCollision call: arguments and result;
                  \* or the registry write made since, and the Map before it
  lastHeight,     \* the last getHeightAtPosition call: argument and result,
                  \* and what the calls at the same place before it returned
  isRunning,      \* Game3D.isRunning
  player,         \* Player3D: position, velocity, isGrounded, pitch
  stats,          \* Game3D.playerStats
  projectiles,    \* WeaponSystem.projectiles, in array order
  weapon,         \* WeaponSystem: currentAmmo, projectileCount, lastFired
  reloads,        \* pending setTimeout callbacks of the auto-reload, by due time
  gameEnds,       \* calls of callbacks.onGameEnd so far
  tickLog,        \* what the steps of the last Game3D.update saw and did
  stopped,        \* stop() has been called and start() not since
  pending         \* gameLoop callbacks handed to requestAnimationFrame and not yet run

mgrVars == <<enemies, enemyCount, completed, currentWave, waveTimer, timers,
             terrainFn, now, simTime, playerPos, waveLog, autoLog, lastOp,
             nTicks, nCalls>>
colVars == <<colliders, lastCheck, lastHeight>>
gameVars == <<isRunning, player, stats, projectiles, weapon, reloads, gameEnds,
              tickLog, stopped, pending>>
vars == <<mgrVars, colVars, gameVars>>

\* No check and no write of the registry yet; no height query yet.
NoCheck == [made |-> FALSE, wrote |-> "none"]
NoHeight == [made |-> FALSE]

\* getTerrainHeightAtPosition: the supplied function, or 0 when none is set.
getTerrainHeightAtPosition(fn, x) ==
  IF fn # "none" THEN SuppliedHeight(fn, x) ELSE 0

\* The record of an operation: its name, the arguments of a damageEnemy or
\* spawnWave call, and what the call's target was when the call was made.
Op(name) == [op |-> name, id |-> -1, damage |-> 0, pre |-> "none"]

\* What the last updateWaveSpawning saw (timer after the increment, pointer,
\* agent count, the wave at the pointer), the wave it dispatched or -1, the
\* simulated time of the last automatic dispatch and the time between the
\* last two.
NoAuto == [timer |-> 0, pointer |-> 0, count |-> 0, pre |-> "none",
           dispatched |-> -1, lastAt |-> -1, gap |-> -1]

\* Game3D, Player3D and WeaponSystem as their field initialisers leave them.
\* Velocities are in tenths per second, the pitch in thousandths of a radian.
NewPlayer == [x |-> 0, y |-> 20, vx |-> 0, vy |-> 0, grounded |-> TRUE,
              pitch |-> 200]
NewStats == [health |-> 100, score |-> 0, kills |-> 0, level |-> 1, ammo |-> 30]
NewWeapon == [ammo |-> 30, count |-> 0, lastFired |-> 0]
NoTick == [ran |-> FALSE]

InitGameFields ==
  /\ isRunning = FALSE
  /\ player = NewPlayer
  /\ stats = NewStats
  /\ projectiles = <<>>
  /\ weapon = NewWeapon
  /\ reloads = <<>>
  /\ gameEnds = 0
  /\ tickLog = NoTick
  /\ stopped = FALSE
  /\ pending = 0

Init ==
  /\ InitGameFields
  /\ enemies = <<>>
  /\ enemyCount = 0
  /\ completed = [w \in 0..(NumWaves - 1) |-> FALSE]
  /\ currentWave = 0
  /\ waveTimer = 0
  /\ timers = <<>>
  /\ terrainFn = "none"
  /\ now = Epoch
  /\ simTime = 0
  /\ playerPos = [x |-> 0, y |-> 0]
  /\ waveLog = [w \in 0..(NumWaves - 1) |->
                  [dispatches |-> 0, at |-> -1, spawned |-> 0,
                   agentsBefore |-> 0]]
  /\ autoLog = NoAuto
  /\ lastOp = Op("init")
  /\ nTicks = 0
  /\ nCalls = 0
  /\ colliders = <<>>
  /\ lastCheck = NoCheck
  /\ lastHeight = NoHeight

(***************************************************************************)
(* spawnWave.  idx is the argument, or -1 for the call without one.  The   *)
(* result is the new completed flags, pointer and timers, and the wave     *)
(* dispatched or -1.                                                       *)
(***************************************************************************)
RECURSIVE InsertTimer(_, _)
InsertTimer(ts, t) ==
  \* setTimeout: callbacks run in order of due time, equal times in the
  \* order they were set
  IF ts = <<>> THEN <<t>>
  ELSE IF ts[1].due <= t.due THEN <<ts[1]>> \o InsertTimer(Tail(ts), t)
  ELSE <<t>> \o ts

RECURSIVE ScheduleSpawns(_, _, _, _)
ScheduleSpawns(ts, w, i, t0) ==
  \* for (let i = 0; i < wave.enemies; i++) setTimeout(..., i * spawnDelay * 1000)
  IF i >= WaveCount(w) THEN ts
  ELSE ScheduleSpawns(InsertTimer(ts, [due |-> t0 + i * WaveDelay(w),
                                       wave |-> w, ord |-> i]),
                      w, i + 1, t0)

WaveIndex(idx, cw) == IF idx # -1 THEN idx ELSE cw

\* The early return of spawnWave without the test of the completed flag.
spawnWaveReturnsEarlyAbsentOnly(idx, cmp, cw) ==
  WaveIndex(idx, cw) \notin 0..(NumWaves - 1)

\* !wave || wave.completed
spawnWaveReturnsEarly(idx, cmp, cw) ==
  LET w == WaveIndex(idx, cw)
  IN  \/ w \notin 0..(NumWaves - 1)
      \/ cmp[w]

\* A spawnWave that moves the pointer to the wave after the one it
\* dispatched.
spawnWavePointerAfterIndex(idx, cmp, cw, ts, t0) ==
  LET w == WaveIndex(idx, cw)
  IN  IF spawnWaveReturnsEarly(idx, cmp, cw)
      THEN [completed |-> cmp, currentWave |-> cw, timers |-> ts, dispatched |-> -1]
      ELSE [completed |-> [cmp EXCEPT ![w] = TRUE],
            currentWave |-> w + 1,
            timers |-> ScheduleSpawns(ts, w, 0, t0),
            dispatched |-> w]

spawnWave(idx, cmp, cw, ts, t0) ==
  LET w == WaveIndex(idx, cw)
  IN  IF spawnWaveReturnsEarly(idx, cmp, cw)
      THEN [completed |-> cmp, currentWave |-> cw, timers |-> ts, dispatched |-> -1]
      ELSE [completed |-> [cmp EXCEPT ![w] = TRUE],
            currentWave |-> cw + 1,
            timers |-> ScheduleSpawns(ts, w, 0, t0),
            dispatched |-> w]

LogDispatch(log, w, ens) ==
  IF w = -1 THEN log
  ELSE [log EXCEPT ![w] = [@ EXCEPT !.dispatches = @ + 1, !.at = simTime,
                                    !.agentsBefore = Len(ens)]]

\* The wave a spawnWave call names, as the call finds it.
WaveArgState(idx) ==
  LET w == WaveIndex(idx, currentWave)
  IN  IF w \notin 0..(NumWaves - 1) THEN "absent"
      ELSE IF completed[w] THEN "completed" ELSE "fresh"

\* A caller's spawnWave(idx) / spawnWave().
SpawnWave(idx) ==
  LET r == spawnWave(idx, completed, currentWave, timers, now)
  IN  /\ completed' = r.completed
      /\ currentWave' = r.currentWave
      /\ timers' = r.timers
      /\ waveLog' = LogDispatch(waveLog, r.dispatched, enemies)
      /\ lastOp' = [op |-> "spawnWave", id |-> idx, damage |-> 0,
                    pre |-> WaveArgState(idx)]
      /\ UNCHANGED <<enemies, enemyCount, waveTimer, terrainFn, now, simTime,
                     playerPos, autoLog, nTicks, nCalls>>
      /\ UNCHANGED <<colVars, gameVars>>

(***************************************************************************)
(* createEnemyMesh and spawnEnemy.  The fields after attacks are history   *)
(* kept for the properties: the wave and place in the wave the agent came  *)
(* from, the simulated time it was spawned at, whether an update call has  *)
(* processed it, the damage applied while it was live, the state and       *)
(* squared distance its last behaviour evaluation started from, and the    *)
(* squared distance of the evaluation before that.                         *)
(***************************************************************************)
\* createEnemyMesh that starts every agent with the scout's 50 health.
createEnemyMeshScoutHealth(type, id) ==
  [id |-> id, type |-> type,
   health |-> 50, maxHealth |-> BaseHealth(type),
   speed |-> BaseSpeed(type), lastAttack |-> 0, destroyed |-> FALSE,
   attackDamage |-> BaseDamage(type), detectionRange |-> BaseDetection(type),
   attackRange |-> BaseAttackRange(type), behavior |-> "patrol",
   x |-> 0, y |-> 0, hasPatrol |-> FALSE, ptx |-> 0, pty |-> 0,
   flyingHeight |-> 0, attacks |-> 0,
   wave |-> -1, ord |-> -1, simBorn |-> -1, updated |-> FALSE,
   applied |-> 0, evalFrom |-> "none", evalD2 |-> -1, prevD2 |-> -1]

createEnemyMesh(type, id) ==
  [id |-> id, type |-> type,
   health |-> BaseHealth(type), maxHealth |-> BaseHealth(type),
   speed |-> BaseSpeed(type), lastAttack |-> 0, destroyed |-> FALSE,
   attackDamage |-> BaseDamage(type), detectionRange |-> BaseDetection(type),
   attackRange |-> BaseAttackRange(type), behavior |-> "patrol",
   x |-> 0, y |-> 0, hasPatrol |-> FALSE, ptx |-> 0, pty |-> 0,
   flyingHeight |-> 0, attacks |-> 0,
   wave |-> -1, ord |-> -1, simBorn |-> -1, updated |-> FALSE,
   applied |-> 0, evalFrom |-> "none", evalD2 |-> -1, prevD2 |-> -1]

\* sp: the spawn point drawn; off: (Math.random() - 0.5) * 40 of the patrol
\* target; fh: 15 + Math.random() * 10 of a flyer.
spawnEnemy(type, id, fn, sp, off, fh) ==
  LET enemy == createEnemyMesh(type, id)
      terrainHeight == getTerrainHeightAtPosition(fn, sp)
      heightOffset == getEnemyHeightOffset(type)
  IN  IF type = "flyer"
      THEN [enemy EXCEPT !.x = sp, !.y = terrainHeight + FlyerSpawnAltitude,
                         !.flyingHeight = fh]
      ELSE [enemy EXCEPT !.x = sp, !.y = terrainHeight + heightOffset,
                         !.hasPatrol = TRUE, !.ptx = sp + off,
                         !.pty = terrainHeight]

\* The callback spawnWave handed to setTimeout, run once it is due.
\* r: Math.floor(Math.random() * wave.types.length).
SpawnTimerFire(r, s, off, fh) ==
  /\ timers # <<>>
  /\ now >= timers[1].due
  /\ LET t == timers[1]
         type == WaveTypes(t.wave)[r + 1]
         e == spawnEnemy(type, enemyCount, terrainFn, Spawners[s], off, fh)
     IN  /\ enemies' = Append(enemies, [e EXCEPT !.wave = t.wave, !.ord = t.ord,
                                                 !.simBorn = simTime])
         /\ waveLog' = [waveLog EXCEPT ![t.wave].spawned = @ + 1]
  /\ enemyCount' = enemyCount + 1
  /\ timers' = Tail(timers)
  /\ lastOp' = Op("spawn")
  /\ UNCHANGED <<completed, currentWave, waveTimer, terrainFn, now, simTime,
                 playerPos, autoLog, nTicks, nCalls>>
  /\ UNCHANGED <<colVars, gameVars>>

(***************************************************************************)
(* damageEnemy.                                                            *)
(***************************************************************************)
\* The body of damageEnemy without the test of the destroyed flag.
damageOneUnguarded(e, damage) ==
  [e EXCEPT !.health = e.health - damage,
            !.destroyed = (e.health - damage <= 0)]

\* The body of damageEnemy with the flag set only below zero.
damageOneBelowZero(e, damage) ==
  IF ~e.destroyed
  THEN [e EXCEPT !.health = e.health - damage,
                 !.destroyed = (e.health - damage < 0)]
  ELSE e

damageOne(e, damage) ==
  \* if (enemy && !enemy.destroyed) { health -= damage; if (health <= 0) destroyed = true }
  IF ~e.destroyed
  THEN [e EXCEPT !.health = e.health - damage,
                 !.destroyed = (e.health - damage <= 0)]
  ELSE e

\* this.enemies.find(e => e.id === enemyId): the first index with that id, or 0.
FindEnemy(ens, id) ==
  IF \E i \in 1..Len(ens) : ens[i].id = id
  THEN CHOOSE i \in 1..Len(ens) :
         ens[i].id = id /\ \A j \in 1..(i - 1) : ens[j].id # id
  ELSE 0

damageEnemy(ens, id, damage) ==
  LET i == FindEnemy(ens, id)
  IN  IF i = 0 THEN ens ELSE [ens EXCEPT ![i] = damageOne(ens[i], damage)]

\* The history of a call: the amount counts for the agent it names when that
\* agent is in the collection and not destroyed at the time of the call.
NoteApplied(ens, before, id, damage) ==
  [i \in 1..Len(ens) |->
     IF before[i].id = id /\ ~before[i].destroyed
     THEN [ens[i] EXCEPT !.applied = @ + damage]
     ELSE ens[i]]

\* The agent a damageEnemy call names, as the call finds it.
TargetState(id) ==
  IF \A i \in 1..Len(enemies) : enemies[i].id # id THEN "absent"
  ELSE IF \E i \in 1..Len(enemies) : enemies[i].id = id /\ enemies[i].destroyed
       THEN "destroyed" ELSE "live"

DamageEnemy(id, damage) ==
  /\ enemies' = NoteApplied(damageEnemy(enemies, id, damage), enemies, id, damage)
  /\ lastOp' = [op |-> "damage", id |-> id, damage |-> damage,
                pre |-> TargetState(id)]
  /\ nCalls' = nCalls + 1
  /\ UNCHANGED <<enemyCount, completed, currentWave, waveTimer, timers,
                 terrainFn, now, simTime, playerPos, waveLog, autoLog, nTicks>>
  /\ UNCHANGED <<colVars, gameVars>>

\* setTerrainHeightFunction.
SetTerrainHeightFunction(fn) ==
  /\ terrainFn' = fn
  /\ lastOp' = Op("setTerrain")
  /\ nCalls' = nCalls + 1
  /\ UNCHANGED <<enemies, enemyCount, completed, currentWave, waveTimer,
                 timers, now, simTime, playerPos, waveLog, autoLog, nTicks>>
  /\ UNCHANGED <<colVars, gameVars>>

\* Wall-clock time passes and update is not called: the game is not started
\* yet, or stopped.
Idle(d) ==
  /\ now' = now + d
  /\ lastOp' = Op("idle")
  /\ UNCHANGED <<enemies, enemyCount, completed, currentWave, waveTimer,
                 timers, terrainFn, simTime, playerPos, waveLog, autoLog,
                 nTicks, nCalls>>
  /\ UNCHANGED <<colVars, gameVars>>

(***************************************************************************)
(* update and the four per-agent steps.  rnd is what the step draws:       *)
(* o1 the offset of the place whose height the new patrol target takes,    *)
(* o2 the offset of the new patrol target, bob the flyer's vertical        *)
(* bobbing, Math.sin(Date.now() * 0.003 + circleAngle), and drift the      *)
(* flyer's step along its circle, both read off the clock and the random   *)
(* circle parameters.                                                      *)
(***************************************************************************)
\* distanceToPlayer <= enemy.detectionRange, with the boundary left out.
detectsExclusive(e, d2) == d2 < e.detectionRange * e.detectionRange

\* distanceToPlayer <= enemy.detectionRange
detects(e, d2) == d2 <= e.detectionRange * e.detectionRange

\* distanceToPlayer <= enemy.attackRange, with the boundary left out.
inAttackRangeExclusive(e, d2) == d2 < e.attackRange * e.attackRange

\* distanceToPlayer <= enemy.attackRange
inAttackRange(e, d2) == d2 <= e.attackRange * e.attackRange

\* A flyer's branch with memory: a retreating flyer retreats until it is
\* farther than 25 from the player.
flyerBehaviorSticky(seen, d2) ==
  IF d2 < FlyerNear * FlyerNear THEN [seen EXCEPT !.behavior = "retreat"]
  ELSE IF d2 > FlyerFar * FlyerFar THEN [seen EXCEPT !.behavior = "chase"]
  ELSE IF seen.behavior = "retreat" THEN seen
  ELSE [seen EXCEPT !.behavior = "attack"]

\* The flyer's branch: the state follows from the distance alone.
flyerBehavior(seen, d2) ==
  IF d2 < FlyerNear * FlyerNear THEN [seen EXCEPT !.behavior = "retreat"]
  ELSE IF d2 > FlyerFar * FlyerFar THEN [seen EXCEPT !.behavior = "chase"]
  ELSE [seen EXCEPT !.behavior = "attack"]

\* switch (enemy.behavior) of the ground archetypes.
groundBehavior(e, seen, d2, fn, rnd) ==
  CASE e.behavior = "patrol" ->
         IF detects(e, d2)
         THEN [seen EXCEPT !.behavior = "chase"]
         ELSE IF /\ e.hasPatrol
                 /\ Dist2(e.x, e.y, e.ptx, e.pty) < PatrolArrive * PatrolArrive
              THEN [seen EXCEPT
                      !.ptx = e.x + rnd.o2,
                      !.pty = getTerrainHeightAtPosition(fn, e.x + rnd.o1)]
              ELSE seen
    [] e.behavior = "chase" ->
         \* distanceToPlayer > detectionRange * 1.5
         IF 4 * d2 > 9 * e.detectionRange * e.detectionRange
         THEN [seen EXCEPT !.behavior = "patrol"]
         ELSE IF inAttackRange(e, d2)
              THEN [seen EXCEPT !.behavior = "attack"]
              ELSE seen
    [] e.behavior = "attack" ->
         \* distanceToPlayer > attackRange * 1.2
         IF 25 * d2 > 36 * e.attackRange * e.attackRange
         THEN [seen EXCEPT !.behavior = "chase"]
         ELSE seen
    [] OTHER -> seen

\* updateEnemyBehavior with no branch for the flyer: every archetype goes
\* through the switch.
updateEnemyBehaviorSwitchOnly(e, p, fn, rnd) ==
  LET d2 == Dist2(e.x, e.y, p.x, p.y)
      seen == [e EXCEPT !.evalFrom = e.behavior, !.evalD2 = d2,
                       !.prevD2 = e.evalD2]
  IN  groundBehavior(e, seen, d2, fn, rnd)

updateEnemyBehavior(e, p, fn, rnd) ==
  LET d2 == Dist2(e.x, e.y, p.x, p.y)
      seen == [e EXCEPT !.evalFrom = e.behavior, !.evalD2 = d2,
                       !.prevD2 = e.evalD2]
  IN  IF e.type = "flyer"
      THEN flyerBehavior(seen, d2)
      ELSE groundBehavior(e, seen, d2, fn, rnd)

\* The step of an agent that moves: normalize() * speed * deltaTime, then
\* lerp(newPosition, 0.8).  dt in ticks of 25 ms, the step in tenths.
MoveStep(e, dt) == (e.speed * dt * 8) \div 40

updateEnemyMovement(e, dt, p) ==
  LET \* the x part of targetPosition - position; the y part is 0 for a ground
      \* agent (direction.y = 0) and for a flyer (its target is at its height)
      dx == IF e.type = "flyer"
            THEN CASE e.behavior = "retreat" -> Sign(e.x - p.x) * RetreatStep
                   [] e.behavior = "chase" -> Sign(p.x - e.x) * ChaseStep
                   [] OTHER -> 0
            ELSE CASE e.behavior = "patrol" ->
                        IF e.hasPatrol THEN e.ptx - e.x ELSE 0
                   [] e.behavior \in {"chase", "attack"} -> p.x - e.x
                   [] OTHER -> 0
  IN  IF Abs(dx) > MoveThreshold
      THEN [e EXCEPT !.x = e.x + Sign(dx) * MoveStep(e, dt)]
      ELSE e

\* updateEnemyAttack that gives every archetype the flyer's cooldown.
updateEnemyAttackFlyerCooldown(e, p, t) ==
  IF e.behavior # "attack" THEN e
  ELSE IF /\ Dist2(e.x, e.y, p.x, p.y) <= e.attackRange * e.attackRange
          /\ t - e.lastAttack > FlyerCooldown
       THEN [e EXCEPT !.lastAttack = t, !.attacks = @ + 1]
       ELSE e

updateEnemyAttack(e, p, t) ==
  LET attackCooldown == IF e.type = "flyer" THEN FlyerCooldown ELSE GroundCooldown
  IN  IF e.behavior # "attack" THEN e
      ELSE IF /\ Dist2(e.x, e.y, p.x, p.y) <= e.attackRange * e.attackRange
              /\ t - e.lastAttack > attackCooldown
           THEN [e EXCEPT !.lastAttack = t, !.attacks = @ + 1]
           ELSE e

\* updateEnemyTerrainCollision that leaves a ground agent's height alone.
updateEnemyTerrainCollisionFlyerOnly(e, fn, rnd) ==
  LET terrainHeight == getTerrainHeightAtPosition(fn, e.x)
  IN  IF e.type = "flyer"
      THEN [e EXCEPT !.x = e.x + rnd.drift,
                     !.y = e.y + ((terrainHeight + e.flyingHeight - e.y) \div 20)
                               + rnd.bob]
      ELSE e

updateEnemyTerrainCollision(e, fn, rnd) ==
  LET terrainHeight == getTerrainHeightAtPosition(fn, e.x)
  IN  IF e.type = "flyer"
      THEN \* lerp(y, terrainHeight + flyingHeight, 0.05), then the bobbing
           [e EXCEPT !.x = e.x + rnd.drift,
                     !.y = e.y + ((terrainHeight + e.flyingHeight - e.y) \div 20)
                               + rnd.bob]
      ELSE [e EXCEPT !.y = terrainHeight + getEnemyHeightOffset(e.type)]

\* The body of the forEach without its first line: a destroyed agent is
\* updated like any other.
updateEnemyAll(e, dt, p, fn, t, rnd) ==
  LET e1 == updateEnemyBehavior(e, p, fn, rnd)
      e2 == updateEnemyMovement(e1, dt, p)
      e3 == updateEnemyAttack(e2, p, t)
      e4 == updateEnemyTerrainCollision(e3, fn, rnd)
  IN  [e4 EXCEPT !.updated = TRUE]

\* The body of the forEach of update, for one agent.
updateEnemy(e, dt, p, fn, t, rnd) ==
  IF e.health <= 0 \/ e.destroyed THEN e
  ELSE LET e1 == updateEnemyBehavior(e, p, fn, rnd)
           e2 == updateEnemyMovement(e1, dt, p)
           e3 == updateEnemyAttack(e2, p, t)
           e4 == updateEnemyTerrainCollision(e3, fn, rnd)
       IN  [e4 EXCEPT !.updated = TRUE]

\* this.enemies.filter(...): the agents kept, in their order.
RECURSIVE removeDestroyed(_)
removeDestroyed(ens) ==
  IF ens = <<>> THEN <<>>
  ELSE IF ens[1].health <= 0 \/ ens[1].destroyed
       THEN removeDestroyed(Tail(ens))
       ELSE <<ens[1]>> \o removeDestroyed(Tail(ens))

\* updateWaveSpawning: whether it calls spawnWave() and resets the timer.
autoAdvance(timer, cw, count) ==
  timer >= WaveInterval /\ cw < NumWaves /\ count < LowWater

\* update(deltaTime, playerPosition), the frame ending dt after the last one:
\* what it leaves in the fields it writes, and the wave it dispatched or -1.
update(dt, p, rnd) ==
  LET t == now + dt
      timer == waveTimer + dt
      fire == autoAdvance(timer, currentWave, Len(enemies))
      r == IF fire THEN spawnWave(-1, completed, currentWave, timers, t)
           ELSE [completed |-> completed, currentWave |-> currentWave,
                 timers |-> timers, dispatched |-> -1]
      did == r.dispatched # -1
      moved == [i \in 1..Len(enemies) |->
                  updateEnemy(enemies[i], dt, p, terrainFn, t, rnd[i])]
  IN  [waveTimer |-> IF fire THEN 0 ELSE timer,
       completed |-> r.completed,
       currentWave |-> r.currentWave,
       timers |-> r.timers,
       waveLog |-> IF did
                   THEN [waveLog EXCEPT ![r.dispatched] =
                           [@ EXCEPT !.dispatches = @ + 1, !.at = simTime + dt,
                                     !.agentsBefore = Len(enemies)]]
                   ELSE waveLog,
       autoLog |-> [timer |-> timer, pointer |-> currentWave,
                    count |-> Len(enemies), pre |-> WaveArgState(-1),
                    dispatched |-> r.dispatched,
                    lastAt |-> IF did THEN simTime + dt ELSE autoLog.lastAt,
                    gap |-> IF did /\ autoLog.lastAt # -1
                            THEN simTime + dt - autoLog.lastAt ELSE -1],
       enemies |-> removeDestroyed(moved)]

\* A caller's update(deltaTime, playerPosition).
Tick(dt, p, rnd) ==
  LET u == update(dt, p, rnd)
  IN  /\ now' = now + dt
      /\ simTime' = simTime + dt
      /\ waveTimer' = u.waveTimer
      /\ completed' = u.completed
      /\ currentWave' = u.currentWave
      /\ timers' = u.timers
      /\ waveLog' = u.waveLog
      /\ autoLog' = u.autoLog
      /\ enemies' = u.enemies
      /\ playerPos' = p
      /\ lastOp' = Op("tick")
      /\ nTicks' = nTicks + 1
      /\ UNCHANGED <<enemyCount, terrainFn, nCalls>>
      /\ UNCHANGED <<colVars, gameVars>>

(***************************************************************************)
(* CollisionSystem.  A collider is a record: id, type, position, and the   *)
(* fields its type uses (size of a box, radius of a sphere, normal of a    *)
(* plane).  No collider carries a mesh.  A unit vector is kept in          *)
(* thousandths.                                                            *)
(***************************************************************************)
\* Math.sqrt, rounded down.
ISqrt(n) == CHOOSE k \in 0..SqrtMax : k * k <= n /\ (k + 1) * (k + 1) > n

\* Vector3.normalize: divideScalar(length() || 1).
Unit(dx, dy) ==
  LET len == ISqrt(dx * dx + dy * dy)
  IN  IF len = 0 THEN [x |-> 0, y |-> 0]
      ELSE [x |-> (dx * UnitScale) \div len, y |-> (dy * UnitScale) \div len]

\* The three noise octaves of calculateProceduralHeight on the line z = 0,
\* rounded to a tenth: at every tenth from x = -2.4 to x = 2.4, and at x = 5,
\* 30 and 85.
NearBase ==
  <<-31, -30, -28, -27, -26, -24, -23, -22, -21, -19, -18, -17, -15, -14, -13,
    -12, -10, -9, -8, -6, -5, -4, -3, -1, 0, 1, 3, 4, 5, 6, 8, 9, 10, 12, 13,
    14, 15, 17, 18, 19, 21, 22, 23, 24, 26, 27, 28, 30, 31>>

\* The same at every 0.6 from x = 0.6 to x = 30, the places of a player who
\* walks from the origin along x.
WalkBase ==
  <<8, 15, 23, 31, 38, 46, 53, 61, 68, 75, 83, 89, 96, 103, 110, 116, 122,
    128, 134, 140, 146, 151, 157, 162, 167, 171, 176, 181, 185, 189, 193,
    197, 201, 204, 208, 211, 214, 217, 220, 223, 226, 229, 232, 234, 237,
    239, 241, 244, 246, 248>>

TerrainBase(x) ==
  CASE x \in -24..24 -> NearBase[x + 25]
    [] x \in 25..299 /\ x % 6 = 0 -> WalkBase[x \div 6]
    [] x = 50 -> 63 [] x = 300 -> 248 [] x = 850 -> 263
    [] OTHER -> 0

\* craterNoise.  roll: Math.random() > 0.8.
craterNoise(x, roll) ==
  LET craterX == (x \div CraterCell) * CraterCell
      distance == x - craterX
  IN  IF distance < CraterReach /\ roll
      THEN -Max(0, CraterDepth - (distance * 4) \div 10)
      ELSE 0

calculateProceduralHeight(x, roll) == TerrainBase(x) + craterNoise(x, roll)

\* getHeightAtPosition: no plane or mesh collider has a mesh to intersect, so
\* the loop returns nothing and the procedural height is the answer.
getHeightAtPosition(cs, x, roll) == calculateProceduralHeight(x, roll)

Miss(c) == [hasCollision |-> FALSE, px |-> 0, py |-> 0, nx |-> 0, ny |-> 0,
            distance |-> 0, collider |-> c.id]

\* checkPlaneCollision that compares the sphere's centre with the ground.
checkPlaneCollisionCentre(position, radius, c, roll) ==
  LET groundHeight == calculateProceduralHeight(position.x, roll)
      playerBottom == position.y
  IN  IF playerBottom <= groundHeight
      THEN [hasCollision |-> TRUE, px |-> position.x, py |-> groundHeight,
            nx |-> c.nx, ny |-> c.ny,
            distance |-> groundHeight - playerBottom, collider |-> c.id]
      ELSE [Miss(c) EXCEPT !.nx = c.nx, !.ny = c.ny]

checkPlaneCollision(position, radius, c, roll) ==
  LET groundHeight == calculateProceduralHeight(position.x, roll)
      playerBottom == position.y - radius
  IN  IF playerBottom <= groundHeight
      THEN [hasCollision |-> TRUE, px |-> position.x, py |-> groundHeight,
            nx |-> c.nx, ny |-> c.ny,
            distance |-> groundHeight - playerBottom, collider |-> c.id]
      ELSE [Miss(c) EXCEPT !.nx = c.nx, !.ny = c.ny]

checkBoxCollision(position, radius, c) ==
  LET hx == c.sx \div 2
      hy == c.sy \div 2
      dx == position.x - c.x
      dy == position.y - c.y
      cx == Max(-hx, Min(hx, dx))
      cy == Max(-hy, Min(hy, dy))
      d2 == (dx - cx) * (dx - cx) + (dy - cy) * (dy - cy)
  IN  IF ~c.sized THEN Miss(c)
      ELSE IF d2 <= radius * radius
           THEN [hasCollision |-> TRUE, px |-> c.x + cx, py |-> c.y + cy,
                 nx |-> Unit(dx - cx, dy - cy).x, ny |-> Unit(dx - cx, dy - cy).y,
                 distance |-> radius - ISqrt(d2), collider |-> c.id]
           ELSE Miss(c)

checkSphereCollision(position, radius, c) ==
  LET d2 == Dist2(position.x, position.y, c.x, c.y)
      totalRadius == radius + c.radius
      n == Unit(position.x - c.x, position.y - c.y)
  IN  IF c.radius = 0 THEN Miss(c)
      ELSE IF d2 <= totalRadius * totalRadius
           THEN [hasCollision |-> TRUE,
                 px |-> c.x + (n.x * c.radius) \div UnitScale,
                 py |-> c.y + (n.y * c.radius) \div UnitScale,
                 nx |-> n.x, ny |-> n.y,
                 distance |-> totalRadius - ISqrt(d2), collider |-> c.id]
           ELSE Miss(c)

checkColliderCollision(position, radius, c, roll) ==
  CASE c.type = "plane" -> checkPlaneCollision(position, radius, c, roll)
    [] c.type = "box" -> checkBoxCollision(position, radius, c)
    [] c.type = "sphere" -> checkSphereCollision(position, radius, c)
    [] OTHER -> Miss(c)

\* The null checkCollision returns when no collider reports a collision.
Null == [hasCollision |-> FALSE, px |-> 0, py |-> 0, nx |-> 0, ny |-> 0,
         distance |-> 0, collider |-> "null"]

\* A checkCollision that looks at every collider and returns the deepest
\* penetration.
checkCollisionDeepest(cs, position, radius, roll) ==
  LET result(i) == checkColliderCollision(position, radius, cs[i], roll)
      colliding == {i \in 1..Len(cs) : result(i).hasCollision}
  IN  IF colliding = {} THEN Null
      ELSE result(CHOOSE i \in colliding :
                    \A j \in colliding :
                       result(i).distance >= result(j).distance)

RECURSIVE checkCollision(_, _, _, _)
checkCollision(cs, position, radius, roll) ==
  IF cs = <<>> THEN Null
  ELSE LET result == checkColliderCollision(position, radius, cs[1], roll)
       IN  IF result.hasCollision THEN result
           ELSE checkCollision(Tail(cs), position, radius, roll)

\* An addCollider that pushes onto a list and keeps what was there.
addColliderAppend(cs, c) == Append(cs, c)

\* Map.set: a new key goes to the end, an old key keeps its place.
addCollider(cs, c) ==
  IF \E i \in 1..Len(cs) : cs[i].id = c.id
  THEN [i \in 1..Len(cs) |-> IF cs[i].id = c.id THEN c ELSE cs[i]]
  ELSE Append(cs, c)

\* Map.delete.
removeCollider(cs, id) ==
  LET Other(c) == c.id # id
  IN  SelectSeq(cs, Other)

\* The record of the last check is kept while the registry is the one the
\* check iterated; a call that writes the registry clears it.
AddCollider(c) ==
  /\ colliders' = addCollider(colliders, c)
  /\ lastCheck' = [made |-> FALSE, wrote |-> "add", id |-> c.id,
                   collider |-> c, before |-> colliders]
  /\ UNCHANGED lastHeight
  /\ UNCHANGED <<mgrVars, gameVars>>

RemoveCollider(id) ==
  /\ colliders' = removeCollider(colliders, id)
  /\ lastCheck' = [made |-> FALSE, wrote |-> "remove", id |-> id,
                   before |-> colliders]
  /\ UNCHANGED lastHeight
  /\ UNCHANGED <<mgrVars, gameVars>>

\* checkCollision(position, radius).  ground is the height the plane test of
\* this call evaluates at the position, kept for the properties.
CheckCollision(position, radius, roll) ==
  /\ lastCheck' = [made |-> TRUE, wrote |-> "none",
                   x |-> position.x, y |-> position.y,
                   radius |-> radius,
                   ground |-> calculateProceduralHeight(position.x, roll),
                   result |-> checkCollision(colliders, position, radius, roll)]
  /\ UNCHANGED <<colliders, lastHeight>>
  /\ UNCHANGED <<mgrVars, gameVars>>

\* getHeightAtPosition(x, 0).
GetHeightAtPosition(x, roll) ==
  /\ lastHeight' = [made |-> TRUE, x |-> x,
                    height |-> getHeightAtPosition(colliders, x, roll),
                    earlier |-> IF lastHeight.made /\ lastHeight.x = x
                                THEN lastHeight.earlier \cup {lastHeight.height}
                                ELSE {}]
  /\ UNCHANGED <<colliders, lastCheck>>
  /\ UNCHANGED <<mgrVars, gameVars>>

(***************************************************************************)
(* Player3D.  The yaw stays 0, so KeyD and KeyA move the player along x    *)
(* and the camera looks along -z; Space is never pressed.  Velocities are  *)
(* in hundredths of a unit per second; a step is rounded toward zero to a  *)
(* tenth.                                                                  *)
(***************************************************************************)
MoveSpeed == 1200
Gravity == 2500
GroundCheckDistance == 1
MaxPitch == 1047
MinPitch == -785

\* n * num / den, rounded toward zero.
Toward0(n, num, den) == Sign(n) * ((Abs(n) * num) \div den)

\* handleMouseLook: pitch += mouseDelta.y * mouseSensitivity, clamped.
handleMouseLook(pl, dy) ==
  [pl EXCEPT !.pitch = Max(MinPitch, Min(MaxPitch, pl.pitch + 2 * dy))]

\* handleMovement: the key sets the horizontal velocity, no key rubs it off.
handleMovement(pl, key) ==
  [pl EXCEPT !.vx = CASE key = "KeyD" -> MoveSpeed
                      [] key = "KeyA" -> -MoveSpeed
                      [] OTHER -> Toward0(pl.vx, 8, 10)]

\* resolveCollision, and the grounding of handleCollisions, for the result
\* of checkCollision or Null.
resolveCollision(pl, collision) ==
  LET velocityInNormal ==
        Toward0(pl.vx * collision.nx + pl.vy * collision.ny, 1, UnitScale)
      out == [pl EXCEPT
                !.x = pl.x + Toward0(collision.nx * collision.distance, 1, UnitScale),
                !.y = pl.y + Toward0(collision.ny * collision.distance, 1, UnitScale),
                !.vx = IF velocityInNormal < 0
                       THEN pl.vx - Toward0(collision.nx * velocityInNormal, 1, UnitScale)
                       ELSE pl.vx,
                !.vy = IF velocityInNormal < 0
                       THEN pl.vy - Toward0(collision.ny * velocityInNormal, 1, UnitScale)
                       ELSE pl.vy]
  IN  IF ~collision.hasCollision THEN pl
      ELSE IF collision.ny * 10 > 7 * UnitScale
           THEN [out EXCEPT !.grounded = TRUE, !.vy = 0]
           ELSE out

handleCollisions(pl, cs, roll) ==
  Bind(LAMBDA collision : resolveCollision(pl, collision),
       checkCollision(cs, [x |-> pl.x, y |-> pl.y], DefaultRadius, roll))

checkGrounded(pl, cs, roll) ==
  LET groundHeight == getHeightAtPosition(cs, pl.x, roll)
      playerBottom == pl.y - DefaultRadius
      distanceToGround == playerBottom - groundHeight
  IN  IF distanceToGround <= GroundCheckDistance
      THEN [pl EXCEPT !.grounded = TRUE, !.y = groundHeight + DefaultRadius,
                      !.vy = IF pl.vy < 0 THEN 0 ELSE pl.vy]
      ELSE IF distanceToGround > GroundCheckDistance * 2
           THEN [pl EXCEPT !.grounded = FALSE]
           ELSE pl

\* The first half of applyPhysics: gravity, and the velocity applied to the
\* position.
applyVelocity(pl, dt) ==
  LET vy == IF ~pl.grounded THEN pl.vy - (Gravity * dt) \div 40 ELSE pl.vy
  IN  [pl EXCEPT !.vy = vy,
                 !.x = pl.x + Toward0(pl.vx * dt, 1, 400),
                 !.y = pl.y + Toward0(vy * dt, 1, 400)]

\* applyPhysics.  roll: the two Math.random() draws of the crater term, in
\* the plane test and in the ground check.
applyPhysics(pl, dt, cs, roll) ==
  LET moved == applyVelocity(pl, dt)
  IN  Bind(LAMBDA hit : checkGrounded(hit, cs, roll[2]),
           Bind(LAMBDA at : handleCollisions(at, cs, roll[1]), moved))

\* Player3D.update(deltaTime, inputManager).
playerUpdate(pl, dt, key, dy, cs, roll) ==
  Bind(LAMBDA turned : applyPhysics(turned, dt, cs, roll),
       handleMovement(handleMouseLook(pl, dy), key))

\* getShoulderPosition at yaw 0: half a unit to the left in x, 1.5 up.
getShoulderPosition(pl) == [x |-> pl.x - 5, y |-> pl.y + 15, z |-> 0]

\* getDirection at yaw 0, in thousandths: (0, -sin(pitch), -cos(pitch)).
getDirection(pl) ==
  IF pl.pitch = MaxPitch THEN [x |-> 0, y |-> -866, z |-> -500]
  ELSE [x |-> 0, y |-> -199, z |-> -980]

(***************************************************************************)
(* WeaponSystem.  A projectile is its id, its place, its velocity in       *)
(* tenths per second and the distance it has travelled.                    *)
(***************************************************************************)
MaxAmmo == 30
FireRate == 8
ReloadDelay == 80
ProjectileSpeed == 500
ProjectileRange == 1000

\* fire(position, direction) at wall-clock time t.
fire(w, ps, position, direction, t) ==
  IF t - w.lastFired < FireRate \/ w.ammo <= 0
  THEN [weapon |-> w, projectiles |-> ps]
  ELSE [weapon |-> [ammo |-> w.ammo - 1, count |-> w.count + 1, lastFired |-> t],
        projectiles |->
          Append(ps, [id |-> w.count,
                      x |-> position.x, y |-> position.y, z |-> position.z,
                      vx |-> Toward0(direction.x * ProjectileSpeed, 1, UnitScale),
                      vy |-> Toward0(direction.y * ProjectileSpeed, 1, UnitScale),
                      vz |-> Toward0(direction.z * ProjectileSpeed, 1, UnitScale),
                      travelled |-> 0])]

\* removeProjectile: findIndex and splice.
removeProjectile(ps, id) ==
  LET Other(q) == q.id # id
  IN  SelectSeq(ps, Other)

moveProjectile(q, dt) ==
  [q EXCEPT !.x = q.x + Toward0(q.vx * dt, 1, 40),
            !.y = q.y + Toward0(q.vy * dt, 1, 40),
            !.z = q.z + Toward0(q.vz * dt, 1, 40),
            !.travelled = q.travelled + (ProjectileSpeed * dt) \div 40]

\* The forEach of update from index i on.  A projectile out of range is
\* spliced out of the array the forEach walks, so the one after it moves up
\* into its index and the walk passes it by.
RECURSIVE moveProjectiles(_, _, _)
moveProjectiles(ps, i, dt) ==
  IF i > Len(ps) THEN ps
  ELSE LET Next(q) ==
             Bind(LAMBDA at : moveProjectiles(at, i + 1, dt),
                  IF q.travelled > ProjectileRange
                  THEN removeProjectile([ps EXCEPT ![i] = q], q.id)
                  ELSE [ps EXCEPT ![i] = q])
       IN  Bind(LAMBDA q : Next(q), moveProjectile(ps[i], dt))

\* WeaponSystem.update(deltaTime) in the frame that ends at t: the
\* projectiles, and the reload callbacks pending after it.
weaponUpdate(w, ps, rs, dt, t) ==
  [projectiles |-> moveProjectiles(ps, 1, dt),
   reloads |-> IF w.ammo = 0 THEN Append(rs, t + ReloadDelay) ELSE rs]

(***************************************************************************)
(* Game3D.  getEnemies hands out, for every agent not destroyed, the first *)
(* child of the agent's group: the body mesh, which createPlaceholderSpider *)
(* and createPlaceholderFlyer add to the group at the group's origin and   *)
(* which carries no userData of its own; the id is set on the group.       *)
(***************************************************************************)
\* enemy.userData.id of a body mesh: undefined.
NoId == -1
ProximityRadius == 20
ProximityDamage == 3
HitRadius == 15
HitDamage == 25
HitScore == 100
KillBonus == 200
KillsPerLevel == 15

Dist3(ax, ay, az, bx, by, bz) ==
  (ax - bx) * (ax - bx) + (ay - by) * (ay - by) + (az - bz) * (az - bz)

\* this.enemies.filter(e => !e.destroyed).map(... enemy.mesh.children[0] ...)
getEnemies(ens) ==
  LET Live(e) == ~e.destroyed
      live == SelectSeq(ens, Live)
  IN  [i \in 1..Len(live) |-> [id |-> NoId, x |-> 0, y |-> 0, z |-> 0]]

getEnemyCount(ens) ==
  LET Live(e) == ~e.destroyed
  IN  Len(SelectSeq(ens, Live))

isEnemyDestroyed(ens, id) ==
  LET i == FindEnemy(ens, id)
  IN  IF i = 0 THEN FALSE ELSE ens[i].destroyed

\* The first forEach of checkCollisions from mesh i on: the stats, and the
\* calls of onGameEnd so far in this frame.
RECURSIVE hitPlayer(_, _, _, _, _)
hitPlayer(meshes, i, pl, st, ends) ==
  IF i > Len(meshes) THEN [stats |-> st, ends |-> ends]
  ELSE IF Dist3(pl.x, pl.y, 0, meshes[i].x, meshes[i].y, meshes[i].z)
            < ProximityRadius * ProximityRadius
       THEN Bind(LAMBDA health :
                   hitPlayer(meshes, i + 1, pl, [st EXCEPT !.health = health],
                             IF health <= 0 THEN ends + 1 ELSE ends),
                 st.health - ProximityDamage)
       ELSE hitPlayer(meshes, i + 1, pl, st, ends)

\* The body of the inner forEach: projectile q against mesh m.
hitEnemy(acc, q, m) ==
  IF Dist3(q.x, q.y, q.z, m.x, m.y, m.z) < HitRadius * HitRadius
  THEN LET ens == NoteApplied(damageEnemy(acc.enemies, m.id, HitDamage),
                              acc.enemies, m.id, HitDamage)
           killed == isEnemyDestroyed(ens, m.id)
       IN  [enemies |-> ens,
            projectiles |-> removeProjectile(acc.projectiles, q.id),
            stats |-> [acc.stats EXCEPT
                         !.score = @ + HitScore + (IF killed THEN KillBonus ELSE 0),
                         !.kills = IF killed THEN @ + 1 ELSE @],
            hits |-> acc.hits + 1]
  ELSE acc

\* The second forEach of checkCollisions: the snapshot of the projectiles
\* from index j on, each against the snapshot of the meshes from index i on.
RECURSIVE hitEnemies(_, _, _, _, _)
hitEnemies(acc, shots, j, meshes, i) ==
  IF j > Len(shots) THEN acc
  ELSE IF i > Len(meshes) THEN hitEnemies(acc, shots, j + 1, meshes, 1)
  ELSE Bind(LAMBDA next : hitEnemies(next, shots, j, meshes, i + 1),
            hitEnemy(acc, shots[j], meshes[i]))

\* checkCollisions.
checkCollisions(pl, st, ens, ps) ==
  LET Second(meshes, first) ==
        Bind(LAMBDA second :
               [enemies |-> second.enemies, projectiles |-> second.projectiles,
                stats |-> second.stats, hits |-> second.hits,
                ends |-> first.ends, meshes |-> Len(meshes)],
             hitEnemies([enemies |-> ens, projectiles |-> ps,
                         stats |-> first.stats, hits |-> 0],
                        ps, 1, meshes, 1))
      First(meshes) ==
        Bind(LAMBDA first : Second(meshes, first),
             hitPlayer(meshes, 1, pl, st, 0))
  IN  Bind(LAMBDA meshes : First(meshes), getEnemies(ens))

\* updateGameStats: the ammo shown, and the level that calls spawnWave().
updateGameStats(st, ammo, cmp, cw, ts, t) ==
  LET newLevel == st.kills \div KillsPerLevel + (cw + 1)
      shown == [st EXCEPT !.ammo = ammo]
  IN  IF newLevel > st.level
      THEN [stats |-> [shown EXCEPT !.level = newLevel],
            wave |-> spawnWave(-1, cmp, cw, ts, t)]
      ELSE [stats |-> shown,
            wave |-> [completed |-> cmp, currentWave |-> cw, timers |-> ts,
                      dispatched |-> -1]]

\* The position enemyManager.update is handed: player.getPosition(), read
\* once player.update has returned.  The mutant reads it before.
playerPositionBeforeUpdate(before, after) == [x |-> before.x, y |-> before.y]

playerPositionForEnemies(before, after) == [x |-> after.x, y |-> after.y]

\* What the steps of a Game3D.update saw and did: the player's place before
\* and after player.update, the place handed to enemyManager.update, the
\* health the frame began with, the projectiles and the number of meshes
\* checkCollisions walked, the hits it found and its calls of onGameEnd.
FrameLog(pl, p, wu, cc) ==
  [ran |-> TRUE,
   before |-> [x |-> player.x, y |-> player.y],
   after |-> [x |-> pl.x, y |-> pl.y],
   passed |-> p,
   health |-> stats.health,
   shots |-> wu.projectiles,
   meshes |-> cc.meshes,
   hits |-> cc.hits,
   ends |-> cc.ends]

\* What one run of gameLoop leaves, but for isRunning: Game3D.update in the
\* frame that ends dt after the last one.  key, dy: the key held and the
\* mouse movement since the last frame.
Frame(name, dt, key, dy, roll, rnd) ==
  \E pl \in {playerUpdate(player, dt, key, dy, colliders, roll)} :
  \E p \in {playerPositionForEnemies(player, pl)} :
  \E u \in {update(dt, p, rnd)} :
  \E wu \in {weaponUpdate(weapon, projectiles, reloads, dt, now + dt)} :
  \E cc \in {checkCollisions(pl, stats, u.enemies, wu.projectiles)} :
  \E gs \in {updateGameStats(cc.stats, weapon.ammo, u.completed,
                              u.currentWave, u.timers, now + dt)} :
      /\ player' = pl
      /\ playerPos' = p
      /\ enemies' = cc.enemies
      /\ projectiles' = cc.projectiles
      /\ reloads' = wu.reloads
      /\ stats' = gs.stats
      /\ gameEnds' = gameEnds + cc.ends
      /\ tickLog' = FrameLog(pl, p, wu, cc)
      /\ waveTimer' = u.waveTimer
      /\ autoLog' = u.autoLog
      /\ completed' = gs.wave.completed
      /\ currentWave' = gs.wave.currentWave
      /\ timers' = gs.wave.timers
      /\ waveLog' = IF gs.wave.dispatched # -1
                    THEN [u.waveLog EXCEPT ![gs.wave.dispatched] =
                            [@ EXCEPT !.dispatches = @ + 1, !.at = simTime + dt,
                                      !.agentsBefore = Len(cc.enemies)]]
                    ELSE u.waveLog
      /\ now' = now + dt
      /\ simTime' = simTime + dt
      /\ nTicks' = nTicks + 1
      /\ lastOp' = Op(name)
      /\ UNCHANGED <<enemyCount, terrainFn, nCalls, weapon>>
      /\ UNCHANGED colVars

\* gameLoop, as requestAnimationFrame calls it while the game is running:
\* the frame, and the callback handed to requestAnimationFrame again.
GameLoop(dt, key, dy, roll, rnd) ==
  /\ pending > 0
  /\ isRunning
  /\ Frame("frame", dt, key, dy, roll, rnd)
  /\ UNCHANGED <<isRunning, stopped, pending>>

\* gameLoop, as requestAnimationFrame calls it while the game is not
\* running: it returns at once and hands no callback on.
GameLoopStopped ==
  /\ pending > 0
  /\ ~isRunning
  /\ pending' = pending - 1
  /\ lastOp' = Op("skip")
  /\ UNCHANGED <<enemies, enemyCount, completed, currentWave, waveTimer,
                 timers, terrainFn, now, simTime, playerPos, waveLog, autoLog,
                 nTicks, nCalls>>
  /\ UNCHANGED <<isRunning, player, stats, projectiles, weapon, reloads,
                 gameEnds, tickLog, stopped>>
  /\ UNCHANGED colVars

\* start(): nothing when running; else the flag, and gameLoop at once,
\* which hands itself to requestAnimationFrame.
Start(dt, key, dy, roll, rnd) ==
  /\ ~isRunning
  /\ isRunning' = TRUE
  /\ stopped' = FALSE
  /\ pending' = pending + 1
  /\ Frame("start", dt, key, dy, roll, rnd)

\* stop().
Stop ==
  /\ isRunning' = FALSE
  /\ stopped' = TRUE
  /\ lastOp' = Op("stop")
  /\ UNCHANGED <<enemies, enemyCount, completed, currentWave, waveTimer,
                 timers, terrainFn, now, simTime, playerPos, waveLog, autoLog,
                 nTicks, nCalls>>
  /\ UNCHANGED <<player, stats, projectiles, weapon, reloads, gameEnds, tickLog,
                 pending>>
  /\ UNCHANGED colVars

\* The mousedown listener with the pointer locked: handleWeaponFire.
Fire ==
  LET f == fire(weapon, projectiles, getShoulderPosition(player),
                getDirection(player), now)
  IN  /\ weapon' = f.weapon
      /\ projectiles' = f.projectiles
      /\ lastOp' = Op("fire")
      /\ UNCHANGED <<enemies, enemyCount, completed, currentWave, waveTimer,
                     timers, terrainFn, now, simTime, playerPos, waveLog,
                     autoLog, nTicks, nCalls>>
      /\ UNCHANGED <<isRunning, player, stats, reloads, gameEnds, tickLog, stopped,
                     pending>>
      /\ UNCHANGED colVars

\* The callback the auto-reload handed to setTimeout, run once it is due.
ReloadTimerFire ==
  /\ reloads # <<>>
  /\ now >= reloads[1]
  /\ weapon' = [weapon EXCEPT !.ammo = MaxAmmo]
  /\ reloads' = Tail(reloads)
  /\ lastOp' = Op("reload")
  /\ UNCHANGED <<enemies, enemyCount, completed, currentWave, waveTimer,
                 timers, terrainFn, now, simTime, playerPos, waveLog, autoLog,
                 nTicks, nCalls>>
  /\ UNCHANGED <<isRunning, player, stats, projectiles, gameEnds, tickLog, stopped,
                 pending>>
  /\ UNCHANGED colVars

(***************************************************************************)
(* The behaviour runs: one wave with every archetype in its pool, short    *)
(* frames, the player placed by the caller of update, damageEnemy called   *)
(* from outside.                                                           *)
(***************************************************************************)
\* deltaTime of a frame: 0.125 s.
FrameDts == {5}

\* playerPosition of an update call.
PlayerInputs ==
  { [x |-> 550, y |-> 10], [x |-> 708, y |-> 10],
    [x |-> 790, y |-> 100], [x |-> 0, y |-> 10] }

\* What one agent's step draws.
StepDraws ==
  { [o1 |-> 0, o2 |-> 30, bob |-> 0, drift |-> 0],
    [o1 |-> 100, o2 |-> -150, bob |-> -10, drift |-> 1] }

PatrolOffsets == {6, -150}
FlyingHeights == {150, 200}
DamageAmounts == {0, 25, 60}

Next ==
  \/ currentWave < MaxWavesRun /\ SpawnWave(4)
  \/ \E r \in 0..3, off \in PatrolOffsets, fh \in FlyingHeights :
       Len(enemies) < MaxEnemies /\ SpawnTimerFire(r, 1, off, fh)
  \/ \E dt \in FrameDts, p \in PlayerInputs :
       \E rnd \in [1..Len(enemies) -> StepDraws] :
         nTicks + nCalls < MaxSteps /\ Tick(dt, p, rnd)
  \/ \E id \in 0..MaxEnemies, d \in {0, 25} :
       nTicks + nCalls < MaxSteps /\ DamageEnemy(id, d)
  \/ \E fn \in HeightFns :
       nTicks + nCalls < MaxSteps /\ SetTerrainHeightFunction(fn)

Spec == Init /\ [][Next]_vars

(***************************************************************************)
(* The damage runs: the agents of one wave, the player far away, and       *)
(* damageEnemy called from outside with any id and amount.                 *)
(***************************************************************************)
FarPlayer == [x |-> 0, y |-> 0]
StillDraw == [o1 |-> 0, o2 |-> 0, bob |-> 0, drift |-> 0]
\* Math.floor(Math.random() * wave.types.length) of a spawn: a scout, a flyer.
DamageDraws == {0, 3}

NextDamage ==
  \/ currentWave < MaxWavesRun /\ SpawnWave(4)
  \/ \E r \in DamageDraws : SpawnTimerFire(r, 1, 0, 150)
  \/ /\ timers # <<>>
     /\ now < timers[1].due
     /\ Idle(timers[1].due - now)
  \/ /\ nTicks < MaxDamageTicks
     /\ Tick(5, FarPlayer, [i \in 1..Len(enemies) |-> StillDraw])
  \/ \E id \in 0..MaxWaveEnemies, d \in DamageAmounts :
       nCalls < MaxDamageCalls /\ DamageEnemy(id, d)

SpecDamage == Init /\ [][NextDamage]_vars

(***************************************************************************)
(* The scheduler runs: spawnWave called from outside with and without an   *)
(* index, long frames, and wall-clock time that passes with no frame.      *)
(***************************************************************************)
\* deltaTime of a frame: 15 s.
WaveDts == {600}
\* The argument of spawnWave; -1 is the call without one, 5 is out of range.
WaveArgs == {-1, 0, 1, 5}

\* Math.floor(Math.random() * wave.types.length) of a spawn.
WaveDraws == {0, 3}

\* A callback that is due runs before the next frame.
TimerDue == timers # <<>> /\ now >= timers[1].due

NextWave ==
  \/ \E idx \in WaveArgs :
       currentWave < MaxDispatched /\ SpawnWave(idx)
  \/ \E r \in WaveDraws : SpawnTimerFire(r, 1, 0, 150)
  \/ \E dt \in WaveDts :
       /\ now + dt <= Epoch + WaveHorizon
       /\ ~TimerDue
       /\ Tick(dt, FarPlayer, [i \in 1..Len(enemies) |-> StillDraw])
  \/ /\ timers # <<>>
     /\ now < timers[1].due
     /\ Idle(timers[1].due - now)

SpecWave == Init /\ [][NextWave]_vars

(***************************************************************************)
(* The call runs: a caller makes any spawnWave calls in one stretch, with  *)
(* any index or none; the spawns run once the pointer is past the last     *)
(* wave, as wall-clock time passes.                                        *)
(***************************************************************************)
CallArgs == -1..NumWaves

NextCalls ==
  \/ \E idx \in CallArgs : SpawnWave(idx)
  \/ currentWave = NumWaves /\ SpawnTimerFire(0, 1, 0, 150)
  \/ /\ currentWave = NumWaves
     /\ timers # <<>>
     /\ now < timers[1].due
     /\ Idle(timers[1].due - now)

SpecCalls == Init /\ [][NextCalls]_vars

(***************************************************************************)
(* The evaluation runs: one agent of any archetype at a spawn point, in    *)
(* any behaviour state its archetype can be in, the player at any of the   *)
(* sampled distances at the agent's height, and updateEnemyBehavior run    *)
(* again and again with nothing else in between.                           *)
(***************************************************************************)
\* Distances to the player, in tenths: below, on and above every threshold.
EvalDistances ==
  {50, 60, 61, 72, 73, 80, 81, 96, 97, 100, 101, 120, 121, 144, 145, 150, 151,
   200, 201, 225, 226, 250, 251, 300, 301, 375, 376, 450, 451, 500}

StatesOf(t) ==
  IF t = "flyer" THEN {"patrol", "retreat", "chase", "attack"}
  ELSE {"patrol", "chase", "attack"}

InitEval ==
  /\ \E t \in Types, d \in EvalDistances :
       \E b \in StatesOf(t) :
         LET e == spawnEnemy(t, 0, "none", Spawners[1], 0, FlyerSpawnAltitude)
         IN  /\ enemies = <<[e EXCEPT !.behavior = b]>>
             /\ playerPos = [x |-> e.x - d, y |-> e.y]
  /\ InitGameFields
  /\ enemyCount = 1
  /\ completed = [w \in 0..(NumWaves - 1) |-> FALSE]
  /\ currentWave = 0
  /\ waveTimer = 0
  /\ timers = <<>>
  /\ terrainFn = "none"
  /\ now = Epoch
  /\ simTime = 0
  /\ waveLog = [w \in 0..(NumWaves - 1) |->
                  [dispatches |-> 0, at |-> -1, spawned |-> 0,
                   agentsBefore |-> 0]]
  /\ autoLog = NoAuto
  /\ lastOp = Op("init")
  /\ nTicks = 0
  /\ nCalls = 0
  /\ colliders = <<>>
  /\ lastCheck = NoCheck
  /\ lastHeight = NoHeight

\* updateEnemyBehavior(enemy, deltaTime, playerPosition) for every agent.
EvaluateBehavior(rnd) ==
  /\ enemies' = [i \in 1..Len(enemies) |->
                   updateEnemyBehavior(enemies[i], playerPos, terrainFn, rnd)]
  /\ lastOp' = Op("evaluate")
  /\ UNCHANGED <<enemyCount, completed, currentWave, waveTimer, timers,
                 terrainFn, now, simTime, playerPos, waveLog, autoLog,
                 nTicks, nCalls>>
  /\ UNCHANGED <<colVars, gameVars>>

NextEval == \E rnd \in StepDraws : EvaluateBehavior(rnd)

SpecEval == InitEval /\ [][NextEval]_vars

(***************************************************************************)
(* The collision runs: the ground plane, a structure's box and an enemy    *)
(* base's sphere as Game3D registers them, in any order and removed again, *)
(* and checks and height queries at the sampled places.                    *)
(***************************************************************************)
Ground ==
  [id |-> "ground", type |-> "plane", x |-> 0, y |-> 0, sized |-> FALSE,
   sx |-> 0, sy |-> 0, radius |-> 0, nx |-> 0, ny |-> UnitScale]
\* size (8, 6, 8), standing on the terrain at x = 30
Structure ==
  [id |-> "structure_0", type |-> "box", x |-> 300, y |-> 248, sized |-> TRUE,
   sx |-> 80, sy |-> 60, radius |-> 0, nx |-> 0, ny |-> 0]
\* the same id at another place
StructureMoved == [Structure EXCEPT !.x = 50, !.y = 63]
\* radius 15, on the terrain at x = 85
EnemyBase ==
  [id |-> "enemy_base_0", type |-> "sphere", x |-> 850, y |-> 263,
   sized |-> FALSE, sx |-> 0, sy |-> 0, radius |-> 150, nx |-> 0, ny |-> 0]

Shapes == {Ground, Structure, StructureMoved, EnemyBase}
ColliderIds == {"ground", "structure_0", "enemy_base_0"}
SampleXs == {0, 50, 300, 850}
CheckOffsets == {-3, 0, 5, 20}
CheckRadii == {DefaultRadius}

\* The heights a caller can have read at x, and the heights around them.
GroundHeights(x) == {calculateProceduralHeight(x, roll) : roll \in BOOLEAN}
CheckHeights(x) == {h + dy : h \in GroundHeights(x), dy \in CheckOffsets}

NextCollision ==
  \/ \E c \in Shapes : AddCollider(c)
  \/ \E id \in ColliderIds : RemoveCollider(id)
  \/ \E x \in SampleXs, radius \in CheckRadii, roll \in BOOLEAN :
       \E y \in CheckHeights(x) :
         CheckCollision([x |-> x, y |-> y], radius, roll)
  \/ \E x \in SampleXs, roll \in BOOLEAN : GetHeightAtPosition(x, roll)

SpecCollision == Init /\ [][NextCollision]_vars

(***************************************************************************)
(* The game runs: Game3D as its constructor leaves it (the ground plane,   *)
(* a structure and an enemy base registered, wave 0 dispatched), started   *)
(* and stopped by its owner, with short frames, a key held or not, the     *)
(* mouse pulled down or not, shots fired, and the spawn callbacks run as   *)
(* wall-clock time passes.                                                 *)
(***************************************************************************)
MaxGameFrames == 4
MaxGameEnemies == 2
MaxShots == 1
MaxWalk == 12

\* deltaTime of a frame: 0.05 s.
GameDts == {2}
Keys == {"none", "KeyD"}
\* event.movementY between two frames.
MouseDys == {0, 500}
\* The crater draws of a frame's plane test and ground check.
GameRolls == {<<FALSE, FALSE>>, <<TRUE, FALSE>>, <<FALSE, TRUE>>}

InitGame ==
  LET r == spawnWave(0, [w \in 0..(NumWaves - 1) |-> FALSE], 0, <<>>, Epoch)
  IN  /\ InitGameFields
      /\ enemies = <<>>
      /\ enemyCount = 0
      /\ completed = r.completed
      /\ currentWave = r.currentWave
      /\ waveTimer = 0
      /\ timers = r.timers
      /\ terrainFn = "none"
      /\ now = Epoch
      /\ simTime = 0
      /\ playerPos = [x |-> 0, y |-> 0]
      /\ waveLog = [w \in 0..(NumWaves - 1) |->
                      [dispatches |-> IF w = 0 THEN 1 ELSE 0,
                       at |-> IF w = 0 THEN 0 ELSE -1, spawned |-> 0,
                       agentsBefore |-> 0]]
      /\ autoLog = NoAuto
      /\ lastOp = Op("init")
      /\ nTicks = 0
      /\ nCalls = 0
      /\ colliders = <<Ground, Structure, EnemyBase>>
      /\ lastCheck = NoCheck
      /\ lastHeight = NoHeight

GameInputs(key) == key = "KeyD" => player.x <= MaxWalk

NextGame ==
  \/ \E dt \in GameDts, key \in Keys, dy \in MouseDys, roll \in GameRolls :
       /\ nTicks < MaxGameFrames
       /\ GameInputs(key)
       /\ Start(dt, key, dy, roll, [i \in 1..Len(enemies) |-> StillDraw])
  \/ \E dt \in GameDts, key \in Keys, dy \in MouseDys, roll \in GameRolls :
       /\ nTicks < MaxGameFrames
       /\ GameInputs(key)
       /\ GameLoop(dt, key, dy, roll, [i \in 1..Len(enemies) |-> StillDraw])
  \/ isRunning /\ Stop
  \/ weapon.count < MaxShots /\ Fire
  \/ Len(enemies) < MaxGameEnemies /\ SpawnTimerFire(0, 1, 0, 150)
  \/ /\ timers # <<>>
     /\ now < timers[1].due
     /\ Len(enemies) < MaxGameEnemies
     /\ Idle(timers[1].due - now)

SpecGame == InitGame /\ [][NextGame]_vars

(***************************************************************************)
(* The siege runs: the same game with the player left standing where the   *)
(* constructor put it, no key, no mouse, no shot and no crater drawn, for  *)
(* as many frames as it takes the agents to wear the player's health down. *)
(***************************************************************************)
MaxSiegeFrames == 16
MaxSiegeEnemies == 3
Calm == <<FALSE, FALSE>>

NextSiege ==
  \/ /\ nTicks < MaxSiegeFrames
     /\ ~stopped
     /\ Start(2, "none", 0, Calm, [i \in 1..Len(enemies) |-> StillDraw])
  \/ /\ nTicks < MaxSiegeFrames
     /\ GameLoop(2, "none", 0, Calm, [i \in 1..Len(enemies) |-> StillDraw])
  \/ isRunning /\ gameEnds > 0 /\ Stop
  \/ Len(enemies) < MaxSiegeEnemies /\ SpawnTimerFire(0, 1, 0, 150)
  \/ /\ timers # <<>>
     /\ now < timers[1].due
     /\ Len(enemies) < MaxSiegeEnemies
     /\ nTicks < 2
     /\ Idle(timers[1].due - now)

SpecSiege == InitGame /\ [][NextSiege]_vars

(***************************************************************************)
(* The firing runs: the same game with no key held and no crater drawn,    *)
(* the player dropping from where the constructor put it to the ground at  *)
(* the origin, the mouse pulled down or not, and shots fired.              *)
(***************************************************************************)
MaxFiringFrames == 9
MaxFiringEnemies == 2

NextFiring ==
  \/ \E dy \in MouseDys :
       /\ nTicks < MaxFiringFrames
       /\ ~stopped
       /\ Start(2, "none", dy, Calm, [i \in 1..Len(enemies) |-> StillDraw])
  \/ \E dy \in MouseDys :
       /\ nTicks < MaxFiringFrames
       /\ GameLoop(2, "none", dy, Calm, [i \in 1..Len(enemies) |-> StillDraw])
  \/ weapon.count < MaxShots /\ Fire
  \/ Len(enemies) < MaxFiringEnemies /\ SpawnTimerFire(0, 1, 0, 150)
  \/ /\ timers # <<>>
     /\ now < timers[1].due
     /\ Len(enemies) < MaxFiringEnemies
     /\ nTicks < 2
     /\ Idle(timers[1].due - now)

SpecFiring == InitGame /\ [][NextFiring]_vars

(***************************************************************************)
(* The attack runs: one ground agent of the first wave and a player who    *)
(* stays near its spawn point or walks off, over frames of half a second   *)
(* and of a second, long enough for an attack, the cooldown and the next   *)
(* attack.                                                                 *)
(***************************************************************************)
MaxAttackTicks == 7
AttackDts == {20, 41}
AttackInputs == {[x |-> 780, y |-> 10], [x |-> 710, y |-> 10],
                 [x |-> 400, y |-> 10]}
\* Math.floor(Math.random() * wave.types.length) of a spawn: a scout, a
\* warrior.
AttackDraws == {0, 3}

NextAttack ==
  \/ currentWave < MaxWavesRun /\ SpawnWave(4)
  \/ \E r \in AttackDraws :
       \* the first spawn of the wave only
       enemyCount = 0 /\ SpawnTimerFire(r, 1, 0, 150)
  \/ \E dt \in AttackDts, p \in AttackInputs :
       /\ nTicks < MaxAttackTicks
       /\ enemies # <<>>
       /\ Tick(dt, p, [i \in 1..Len(enemies) |-> StillDraw])

SpecAttack == Init /\ [][NextAttack]_vars

(***************************************************************************)
(* The weapon runs: a WeaponSystem on its own, fired from the shoulder of  *)
(* a player who stands where the constructor put it, updated in frames of  *)
(* half a second, with the reload callbacks run as they fall due.          *)
(***************************************************************************)
MaxWeaponFrames == 38
WeaponDts == {20}

\* WeaponSystem.update(deltaTime), called once the frame's dt has passed.
WeaponUpdate(dt) ==
  \E wu \in {weaponUpdate(weapon, projectiles, reloads, dt, now + dt)} :
    /\ projectiles' = wu.projectiles
    /\ reloads' = wu.reloads
    /\ now' = now + dt
    /\ nTicks' = nTicks + 1
    /\ lastOp' = Op("weapon")
    /\ UNCHANGED <<enemies, enemyCount, completed, currentWave, waveTimer,
                   timers, terrainFn, simTime, playerPos, waveLog, autoLog,
                   nCalls>>
    /\ UNCHANGED <<isRunning, player, stats, weapon, gameEnds, tickLog, stopped,
                   pending>>
    /\ UNCHANGED colVars

NextWeapon ==
  \/ Fire
  \/ \E dt \in WeaponDts : nTicks < MaxWeaponFrames /\ WeaponUpdate(dt)
  \/ ReloadTimerFire

SpecWeapon == Init /\ [][NextWeapon]_vars

(***************************************************************************)
(* The walking runs: the game with no agent spawned, KeyD held down and    *)
(* the player walking along x from the origin up the slope to the          *)
(* structure at x = 30, in frames of half a second and of 0.05 s.          *)
(***************************************************************************)
MaxWalkFrames == 9
WalkDts == {2, 20}
\* The walk ends a unit inside the structure's face at x = 26.
WalkTo == 270

NextWalk ==
  \/ \E dt \in WalkDts, roll \in GameRolls :
       /\ nTicks < MaxWalkFrames
       /\ player.x + 3 * dt <= WalkTo
       /\ Start(dt, "KeyD", 0, roll, <<>>)
  \/ \E dt \in WalkDts, roll \in GameRolls :
       /\ nTicks < MaxWalkFrames
       /\ player.x + 3 * dt <= WalkTo
       /\ GameLoop(dt, "KeyD", 0, roll, <<>>)

SpecWalk == InitGame /\ [][NextWalk]_vars

(***************************************************************************)
(* The loop runs: start() and stop() called by the owner in any order and  *)
(* at any moment between the animation frames, and the callbacks handed to *)
(* requestAnimationFrame run one by one; no agent is spawned.              *)
(***************************************************************************)
MaxLoopFrames == 6

NextLoop ==
  \/ \E key \in Keys :
       /\ nTicks < MaxLoopFrames
       /\ GameInputs(key)
       /\ Start(2, key, 0, Calm, <<>>)
  \/ \E key \in Keys :
       /\ nTicks < MaxLoopFrames
       /\ GameInputs(key)
       /\ GameLoop(2, key, 0, Calm, <<>>)
  \/ GameLoopStopped
  \/ isRunning /\ Stop

SpecLoop == InitGame /\ [][NextLoop]_vars

(***************************************************************************)
(* Properties of the enemy manager.                                        *)
(***************************************************************************)
Agents == {enemies[i] : i \in 1..Len(enemies)}
GroundAgents == {e \in Agents : e.type \in GroundTypes}
LastAgent == enemies[Len(enemies)]

\* C1: every agent's behaviour state is one of patrol, chase, attack and
\* retreat; a ground agent (scout, warrior, heavy) is never in retreat; a
\* flyer that an update tick has processed is in retreat, chase or attack.
C1_BehaviorStates ==
  \A e \in Agents :
    /\ e.behavior \in {"patrol", "chase", "attack", "retreat"}
    /\ e.type \in {"scout", "warrior", "heavy"} => e.behavior # "retreat"
    /\ e.type = "flyer" /\ e.updated =>
         e.behavior \in {"retreat", "chase", "attack"}

\* A flyer that a tick has put into retreat.
C1_Witness ==
  \E e \in Agents : e.type = "flyer" /\ e.updated /\ e.behavior = "retreat"

\* The height a ground archetype rides above the terrain: 1.0, 1.5, 2.0.
RideHeight(t) == CASE t = "scout" -> 10 [] t = "warrior" -> 15 [] OTHER -> 20

\* The terrain height under an agent: the supplied function, 0 when none is set.
TerrainUnder(e) ==
  IF terrainFn = "none" THEN 0 ELSE SuppliedHeight(terrainFn, e.x)

\* C2: at the end of every update tick each ground agent's y equals
\* terrainHeight(x, z) + offset(type), with offsets 1.0, 1.5 and 2.0 for
\* scout, warrior and heavy; the same holds for a ground agent right after
\* its spawn; terrainHeight is 0 while no height function is set.
C2_GroundSnap ==
  /\ lastOp.op = "tick" =>
       \A e \in GroundAgents : e.y = TerrainUnder(e) + RideHeight(e.type)
  /\ lastOp.op = "spawn" /\ LastAgent.type \in GroundTypes =>
       LastAgent.y = TerrainUnder(LastAgent) + RideHeight(LastAgent.type)

\* A tick has ended with a ground agent that has moved from its spawn point
\* and stands on terrain that is not at height 0.
C2_Witness ==
  /\ lastOp.op = "tick"
  /\ \E e \in GroundAgents : e.x # 800 /\ TerrainUnder(e) # 0 /\ e.updated

\* C3: damageEnemy(id, 0) leaves the health and the destroyed flag of every
\* agent as they were, and so does damageEnemy with any amount on an id that
\* is destroyed or not in the collection.
C3_Step ==
  /\ lastOp'.op = "damage"
  /\ \/ lastOp'.damage = 0
     \/ \A i \in 1..Len(enemies) : enemies[i].id # lastOp'.id
     \/ \E i \in 1..Len(enemies) :
          enemies[i].id = lastOp'.id /\ enemies[i].destroyed
  => /\ Len(enemies') = Len(enemies)
     /\ \A i \in 1..Len(enemies) :
          /\ enemies'[i].id = enemies[i].id
          /\ enemies'[i].health = enemies[i].health
          /\ enemies'[i].destroyed = enemies[i].destroyed

C3_DamageNoOp == [][C3_Step]_vars

\* A call with a positive amount has just named an agent that was destroyed
\* already and is still in the collection, next to an agent that is not.
C3_Witness ==
  /\ lastOp.op = "damage" /\ lastOp.damage > 0 /\ lastOp.pre = "destroyed"
  /\ \E e \in Agents : e.id = lastOp.id /\ e.destroyed
  /\ \E e \in Agents : ~e.destroyed

\* C4, the state part: an agent's health is its initial health less the sum
\* of the amounts of the calls made on it while it was not destroyed, and
\* it is destroyed exactly when its health is at or below 0; a scout is
\* at 25 and not destroyed after 25, at 0 and destroyed after 25 twice.
C4_State ==
  \A e \in Agents :
    /\ e.health = BaseHealth(e.type) - e.applied
    /\ e.destroyed <=> e.health <= 0
    /\ e.type = "scout" /\ e.applied = 25 => e.health = 25 /\ ~e.destroyed
    /\ e.type = "scout" /\ e.applied = 50 => e.health = 0 /\ e.destroyed

\* C4, the step part: the destroyed flag of an agent never returns to false.
C4_Step ==
  \A i \in 1..Len(enemies), j \in 1..Len(enemies') :
    enemies[i].id = enemies'[j].id /\ enemies[i].destroyed
      => enemies'[j].destroyed

\* C4: a not-yet-destroyed agent's health after each damageEnemy call is its
\* initial health less the amounts applied so far, destroyed turns true at
\* the first call that leaves health at or below 0, and it never turns false
\* again.
C4_DamageAccounting == []C4_State /\ [][C4_Step]_vars

\* A scout hit by 25 twice: at 0 health and destroyed.
C4_Witness ==
  \E e \in Agents :
    e.type = "scout" /\ e.applied = 50 /\ e.health = 0 /\ e.destroyed

\* C5: an agent just spawned has the health and maxHealth of its archetype,
\* 50 for a scout, 100 for a warrior, 200 for a heavy and 75 for a flyer, is
\* not destroyed and is in patrol.
C5_SpawnStats ==
  lastOp.op = "spawn" =>
    LET e == LastAgent
        h == CASE e.type = "scout" -> 50 [] e.type = "warrior" -> 100
               [] e.type = "heavy" -> 200 [] e.type = "flyer" -> 75
    IN  /\ e.health = h
        /\ e.maxHealth = h
        /\ ~e.destroyed
        /\ e.behavior = "patrol"

\* A heavy has just been spawned.
C5_Witness ==
  lastOp.op = "spawn" /\ LastAgent.type = "heavy" /\ LastAgent.health = 200

\* C6: the boundaries are inclusive.  A ground agent whose behaviour was
\* evaluated in patrol at a distance equal to its detectionRange is in chase,
\* and one evaluated in chase at a distance equal to its attackRange is in
\* attack.
C6_InclusiveBoundaries ==
  \A e \in GroundAgents :
    /\ e.evalFrom = "patrol" /\ e.evalD2 = e.detectionRange * e.detectionRange
         => e.behavior = "chase"
    /\ e.evalFrom = "chase" /\ e.evalD2 = e.attackRange * e.attackRange
         => e.behavior = "attack"

\* A scout evaluated in chase with the player exactly 8.0 away.
C6_Witness ==
  \E e \in GroundAgents :
    e.type = "scout" /\ e.evalFrom = "chase" /\ e.evalD2 = 80 * 80
      /\ e.behavior = "attack"

(***************************************************************************)
(* Properties of the wave scheduler.                                       *)
(***************************************************************************)
WaveIds == 0..(NumWaves - 1)
PendingOf(w) == {i \in 1..Len(timers) : timers[i].wave = w}
PoolOf(w) == {WaveTypes(w)[k] : k \in 1..4}

\* C7: spawnWave on a wave that exists and is not completed schedules one
\* spawn for each of the wave's N enemies, the i-th (from 0) not before
\* i * D of simulated time has passed since the call, each of a type from
\* the wave's pool; the wave is completed and the pointer advanced when the
\* call returns, before any agent of the wave exists.  Simulated time is the
\* sum of the deltaTime of the update calls.
C7_SpawnSchedule ==
  /\ \A w \in WaveIds :
       waveLog[w].dispatches >= 1 =>
         /\ completed[w]
         /\ waveLog[w].spawned + Cardinality(PendingOf(w)) = WaveCount(w)
  /\ lastOp.op = "spawnWave" /\ lastOp.pre = "fresh" =>
       LET w == WaveIndex(lastOp.id, currentWave - 1)
       IN  completed[w] /\ waveLog[w].spawned = 0
  /\ \A e \in Agents :
       /\ e.type \in PoolOf(e.wave)
       /\ e.simBorn >= waveLog[e.wave].at + e.ord * WaveDelay(e.wave)

\* The part of C7 that does not speak of time: the count, the pool, the
\* completed flag and the pointer.
C7_CountsAndPool ==
  /\ \A w \in WaveIds :
       waveLog[w].dispatches >= 1 =>
         /\ completed[w]
         /\ waveLog[w].spawned + Cardinality(PendingOf(w)) = WaveCount(w)
  /\ \A e \in Agents : e.type \in PoolOf(e.wave)

\* The second agent of wave 0 exists although no update call has been made.
C7_Witness ==
  \E e \in Agents : e.wave = 0 /\ e.ord = 1 /\ simTime = 0 /\ nTicks = 0

\* C8: a spawnWave call whose wave does not exist (an index out of range, or
\* no index with the pointer past the last wave) or is completed already
\* changes nothing: no spawn is scheduled, the pointer, the completed flags
\* and the agents stay as they are.
C8_Step ==
  /\ lastOp'.op = "spawnWave"
  /\ LET w == IF lastOp'.id # -1 THEN lastOp'.id ELSE currentWave
     IN  w \notin WaveIds \/ completed[w]
  => UNCHANGED <<timers, currentWave, completed, enemies, enemyCount,
                 waveTimer, waveLog>>

C8_SpawnWaveNoOp == [][C8_Step]_vars

\* spawnWave has just been called without an index with the pointer past
\* the last wave, after a call on a completed wave and a call with an index
\* out of range were made on the way, while spawns were still pending.
C8_Witness ==
  /\ lastOp.op = "spawnWave" /\ lastOp.pre = "absent" /\ lastOp.id = -1
  /\ currentWave = NumWaves
  /\ timers # <<>>

\* C9: an update tick dispatches the next wave exactly when the wave timer
\* has reached 30 s, the pointer is below the number of waves and fewer than
\* 5 agents are active; the timer goes back to 0 in exactly the ticks that
\* dispatch; two automatic dispatches are at least 30 s of simulated time
\* apart.
C9_AutoAdvance ==
  lastOp.op = "tick" =>
    /\ autoLog.dispatched # -1 <=>
         (autoLog.timer >= 1200 /\ autoLog.pointer < 5 /\ autoLog.count < 5)
    /\ waveTimer = 0 <=> autoLog.dispatched # -1
    /\ autoLog.gap # -1 => autoLog.gap >= 1200

\* A tick has found the timer at 30 s, fewer than 5 agents and the pointer
\* on a wave that is completed already: it dispatched nothing and put the
\* timer back to 0.
C9_Witness ==
  /\ lastOp.op = "tick"
  /\ autoLog.timer >= 1200 /\ autoLog.pointer < 5 /\ autoLog.count < 5
  /\ autoLog.pre = "completed"
  /\ autoLog.dispatched = -1
  /\ waveTimer = 0

\* What does hold of updateWaveSpawning: it calls spawnWave() and puts the
\* timer back to 0 exactly when the timer has reached 30 s, the pointer is
\* below the number of waves and fewer than 5 agents are active; the call
\* dispatches a wave exactly when the wave at the pointer is not completed;
\* two automatic dispatches are at least 30 s apart.
C9_TimerReset ==
  lastOp.op = "tick" =>
    /\ waveTimer = 0 <=>
         (autoLog.timer >= 1200 /\ autoLog.pointer < 5 /\ autoLog.count < 5)
    /\ autoLog.dispatched # -1 <=> (waveTimer = 0 /\ autoLog.pre = "fresh")
    /\ autoLog.gap # -1 => autoLog.gap >= 1200

(***************************************************************************)
(* Properties of the collision system.                                     *)
(***************************************************************************)
\* The ground plane is in the registry, is the first the loop comes to.
GroundRegistered == \E i \in 1..Len(colliders) : colliders[i].id = "ground"
GroundFirst == colliders # <<>> /\ colliders[1].id = "ground"

\* C10 as stated: with the ground plane registered, a check of a sphere of
\* radius 0.5 whose height is the ground height at its place returns a
\* collision with penetration distance 0.  The ground height is taken to be
\* the one the check itself evaluates.
C10_AsStated ==
  /\ lastCheck.made
  /\ GroundRegistered
  /\ lastCheck.radius = 5
  /\ lastCheck.y = lastCheck.ground
  => /\ lastCheck.result.hasCollision
     /\ lastCheck.result.distance = 0

\* C10, amended: with the ground plane the first collider of the registry, a
\* check of a sphere of radius 0.5 whose centre is at the ground height the
\* check evaluates at its place returns the plane's collision with
\* penetration distance 0.5, the radius; the distance is 0 when the sphere's
\* bottom, its height less 0.5, is at that ground height.
C10_PlanePenetration ==
  lastCheck.made /\ GroundFirst /\ lastCheck.radius = 5 =>
    /\ lastCheck.y = lastCheck.ground =>
         /\ lastCheck.result.hasCollision
         /\ lastCheck.result.collider = "ground"
         /\ lastCheck.result.distance = 5
    /\ lastCheck.y - 5 = lastCheck.ground =>
         /\ lastCheck.result.hasCollision
         /\ lastCheck.result.collider = "ground"
         /\ lastCheck.result.distance = 0

\* A check with the sphere's bottom exactly at the ground height, at a place
\* inside a crater's reach whose crater the check's draw made active, with
\* the ground plane first and other colliders behind it.
C10_Witness ==
  /\ lastCheck.made /\ GroundFirst /\ Len(colliders) > 1
  /\ lastCheck.radius = 5
  /\ lastCheck.y - 5 = lastCheck.ground
  /\ lastCheck.ground # TerrainBase(lastCheck.x)
  /\ lastCheck.result.hasCollision /\ lastCheck.result.distance = 0

(***************************************************************************)
(* Properties of the behaviour evaluation.                                 *)
(***************************************************************************)
Flyers == {e \in Agents : e.type = "flyer"}

\* C11: when a flyer's distance to the player goes, from one tick to the
\* next, from below 10 to above 25 or from above 25 to below 10, the states
\* at the ends of the ticks pass through attack: retreat is not followed at
\* once by chase, nor chase by retreat.
C11_AttackBetween ==
  \A e \in Flyers :
    /\ e.prevD2 # -1 /\ e.prevD2 < 100 * 100 /\ e.evalD2 > 250 * 250
         => ~(e.evalFrom = "retreat" /\ e.behavior = "chase")
    /\ e.prevD2 # -1 /\ e.prevD2 > 250 * 250 /\ e.evalD2 < 100 * 100
         => ~(e.evalFrom = "chase" /\ e.behavior = "retreat")

\* A flyer evaluated below 10 in one tick and above 25 in the next: in
\* retreat at the end of the first, in chase at the end of the second.
C11_Witness ==
  \E e \in Flyers :
    /\ e.prevD2 # -1 /\ e.prevD2 < 100 * 100 /\ e.evalD2 > 250 * 250
    /\ e.evalFrom = "retreat" /\ e.behavior = "chase"

\* What does hold of a flyer a tick has processed: its state is the band its
\* distance was in when the tick evaluated it.
C11_StateIsBand ==
  \A e \in Flyers :
    e.updated =>
      /\ e.behavior = "retreat" <=> e.evalD2 < 100 * 100
      /\ e.behavior = "chase" <=> e.evalD2 > 250 * 250
      /\ e.behavior = "attack" <=>
           (e.evalD2 >= 100 * 100 /\ e.evalD2 <= 250 * 250)

\* updateEnemyBehavior run once, twice and three times on an agent with the
\* player where the state has it.
Once(e) == updateEnemyBehavior(e, playerPos, terrainFn, StillDraw)
Twice(e) == Once(Once(e))
Thrice(e) == Once(Twice(e))

\* C12 as stated: for every agent, state and distance, updateEnemyBehavior
\* run twice in a row at the same distance leaves the agent in the state it
\* is in after one run.
C12_Idempotent ==
  \A e \in Agents : Twice(e).behavior = Once(e).behavior

\* C12, amended: a flyer's evaluation is idempotent in the distance.  A
\* ground agent's second evaluation at the same distance changes the state
\* exactly when the first started in patrol at a distance within attackRange
\* (patrol, chase, attack) or in attack at a distance above 1.5 times
\* detectionRange (attack, chase, patrol); a third evaluation never changes
\* the state the second left.
C12_SettlesInTwo ==
  \A e \in Agents :
    LET d2 == Dist2(e.x, e.y, playerPos.x, playerPos.y)
    IN  /\ e.type = "flyer" => Twice(e).behavior = Once(e).behavior
        /\ e.type # "flyer" =>
             /\ Twice(e).behavior # Once(e).behavior <=>
                  \/ e.behavior = "patrol" /\ d2 <= e.attackRange * e.attackRange
                  \/ /\ e.behavior = "attack"
                     /\ 4 * d2 > 9 * e.detectionRange * e.detectionRange
             /\ Thrice(e).behavior = Twice(e).behavior

\* A scout that two evaluations with the player 5.0 away have taken from
\* patrol through chase to attack.
C12_Witness ==
  \E e \in Agents :
    /\ e.type = "scout"
    /\ e.prevD2 = 50 * 50 /\ e.evalD2 = 50 * 50
    /\ e.evalFrom = "chase" /\ e.behavior = "attack"
    /\ lastOp.op = "evaluate"

(***************************************************************************)
(* Properties of Game3D.                                                   *)
(***************************************************************************)
\* The state is the one a run of gameLoop left.
AfterFrame == tickLog.ran /\ lastOp.op \in {"frame", "start"}

\* C13: in every Game3D.update the player's movement and collision
\* resolution are done before any agent's behaviour is evaluated, every agent
\* evaluates its behaviour against the place the player has after moving in
\* that frame, and checkCollisions runs once every agent and every projectile
\* has been updated: it walks the agents update left and the projectiles
\* where weaponSystem.update left them.
C13_FrameOrder ==
  AfterFrame =>
    /\ tickLog.passed = tickLog.after
    /\ tickLog.after = [x |-> player.x, y |-> player.y]
    /\ playerPos = tickLog.after
    /\ \A e \in Agents :
         /\ e.updated
         /\ e.behavior = "patrol" =>
              e.evalD2 = Dist2(e.x, e.y, tickLog.after.x, tickLog.after.y)
    /\ tickLog.meshes = Len(enemies)
    /\ \A k \in 1..Len(projectiles) :
         \E j \in 1..Len(tickLog.shots) : tickLog.shots[j] = projectiles[k]
    /\ \A j \in 1..Len(tickLog.shots) : tickLog.shots[j].travelled > 0

\* A frame in which the player moved, an agent was evaluated and a
\* projectile flew.
C13_Witness ==
  /\ AfterFrame
  /\ tickLog.before.x # tickLog.after.x
  /\ \E e \in Agents : e.updated /\ e.behavior = "patrol"
  /\ Len(projectiles) >= 1

\* C14 as stated: after stop() and until start() is called again no frame
\* runs and nothing of the simulation changes; no agent is added to the
\* collection, no projectile moves and the ammunition stays what it was.  A
\* shot the player fires in that time is left out of the statement.
C14_StoppedIsStill ==
  [][(stopped /\ stopped' /\ lastOp'.op # "fire") =>
       /\ nTicks' = nTicks
       /\ enemies' = enemies
       /\ projectiles' = projectiles
       /\ weapon' = weapon
       /\ stats' = stats
       /\ player' = player]_vars

\* An agent that a spawn callback added while the game was stopped.
C14_Witness ==
  /\ stopped
  /\ ~isRunning
  /\ lastOp.op = "spawn"
  /\ Len(enemies) >= 1

\* What holds while the game is stopped: no frame runs, so the player, the
\* stats and the agents and projectiles already there stay as they are.
C14_NoFrameWhileStopped ==
  [][(stopped /\ stopped') =>
       /\ nTicks' = nTicks
       /\ stats' = stats
       /\ player' = player
       /\ Len(enemies') >= Len(enemies)
       /\ \A i \in 1..Len(enemies) : enemies'[i] = enemies[i]
       /\ Len(projectiles') >= Len(projectiles)
       /\ \A i \in 1..Len(projectiles) : projectiles'[i] = projectiles[i]]_vars

\* C15 as stated: over a whole run of Game3D onGameEnd is called at most
\* once, in the first frame that brings the player's health to zero or
\* below, and not again in that frame nor in a later one.
C15_GameEndOnce == gameEnds <= 1

\* The frame that first brought the health to zero or below, with two
\* calls of onGameEnd in it.
C15_Witness ==
  /\ AfterFrame
  /\ tickLog.health > 0
  /\ stats.health <= 0
  /\ tickLog.ends >= 2
  /\ gameEnds = tickLog.ends

\* What holds: onGameEnd is not called while the health is above zero, and
\* a frame calls it once for every agent whose touch leaves the health at
\* zero or below.
C15_EndsOnlyAtZero ==
  /\ stats.health > 0 => gameEnds = 0
  /\ AfterFrame => tickLog.ends <= tickLog.meshes
  /\ (AfterFrame /\ tickLog.health <= 0 /\ player.y < ProximityRadius) =>
        tickLog.ends = tickLog.meshes

C16_NoAgentIsHit ==
  /\ stats.kills = 0
  /\ \A e \in Agents : e.health = e.maxHealth /\ e.applied = 0 /\ ~e.destroyed
  /\ AfterFrame => tickLog.hits \in {0, tickLog.meshes}

(***************************************************************************)
(* Properties of CollisionSystem's registry and queries.                   *)
(***************************************************************************)
\* The colliders a registry holds under an id.
Registered(cs, id) == {cs[i] : i \in {j \in 1..Len(cs) : cs[j].id = id}}

\* C17: the registry holds at most one collider per id; addCollider leaves
\* under the id of its collider that collider and nothing else, whether or
\* not the id was registered, and leaves the other ids as they were;
\* removeCollider leaves nothing under its id and the other ids as they
\* were, and the whole registry as it was when the id was not registered.
\* So an id holds the collider last added under it since its last removal.
C17_LastWriteWins ==
  /\ \A i, j \in 1..Len(colliders) :
       colliders[i].id = colliders[j].id => i = j
  /\ lastCheck.wrote = "add" =>
       /\ Registered(colliders, lastCheck.id) = {lastCheck.collider}
       /\ \A id \in ColliderIds \ {lastCheck.id} :
            Registered(colliders, id) = Registered(lastCheck.before, id)
  /\ lastCheck.wrote = "remove" =>
       /\ Registered(colliders, lastCheck.id) = {}
       /\ \A id \in ColliderIds \ {lastCheck.id} :
            Registered(colliders, id) = Registered(lastCheck.before, id)
       /\ Registered(lastCheck.before, lastCheck.id) = {} =>
            colliders = lastCheck.before

\* A structure's collider added again at another place while the ground
\* and the first structure were registered: the registry still has two
\* colliders and the structure's is the new one.
C17_Witness ==
  /\ lastCheck.wrote = "add"
  /\ lastCheck.collider = StructureMoved
  /\ lastCheck.before = <<Structure, Ground>>
  /\ colliders = <<StructureMoved, Ground>>

\* The shape test of the last checkCollision call on the i-th collider of
\* the registry, with the ground height that call computed.
ShapeTest(i) ==
  LET roll == CHOOSE r \in BOOLEAN :
                calculateProceduralHeight(lastCheck.x, r) = lastCheck.ground
  IN  checkColliderCollision([x |-> lastCheck.x, y |-> lastCheck.y],
                             lastCheck.radius, colliders[i], roll)
Colliding == {i \in 1..Len(colliders) : ShapeTest(i).hasCollision}
FirstColliding == CHOOSE i \in Colliding : \A j \in Colliding : i <= j

\* C18: checkCollision returns null exactly when no registered collider's
\* shape test reports a collision, as for an empty registry, and otherwise
\* the result of the first colliding collider in the registry's iteration
\* order, whatever the penetration of the colliders after it.
C18_FirstColliding ==
  lastCheck.made =>
    /\ (lastCheck.result = Null) <=> (Colliding = {})
    /\ colliders = <<>> => lastCheck.result = Null
    /\ Colliding # {} =>
         /\ lastCheck.result = ShapeTest(FirstColliding)
         /\ lastCheck.result.hasCollision
         /\ lastCheck.result.collider = colliders[FirstColliding].id

\* A check at the centre of the enemy base, three tenths under the ground:
\* the ground plane comes first in the registry and is returned with its
\* small penetration, the base's sphere after it is penetrated far deeper.
C18_Witness ==
  /\ lastCheck.made
  /\ Len(colliders) >= 2
  /\ colliders[1] = Ground
  /\ lastCheck.result.hasCollision
  /\ lastCheck.result.collider = "ground"
  /\ \E j \in Colliding :
       /\ j > 1
       /\ colliders[j] = EnemyBase
       /\ ShapeTest(j).distance > lastCheck.result.distance

\* C19: the height field is deterministic; a call of the procedural height
\* function at a place returns what the calls at that place before it
\* returned, whatever checks and registry writes came in between.
C19_HeightDeterministic ==
  lastHeight.made => \A h \in lastHeight.earlier : h = lastHeight.height

\* Two height queries at the origin, the corner of a crater cell, with no
\* mesh collider registered: one drew a crater and returned -8, the other
\* drew none and returned 0.
C19_Witness ==
  /\ lastHeight.made
  /\ lastHeight.x = 0
  /\ lastHeight.earlier # {}
  /\ \E h \in lastHeight.earlier : h # lastHeight.height
  /\ \A i \in 1..Len(colliders) : colliders[i].type # "mesh"

\* What holds: a height query returns the three noise octaves, less the
\* crater's depth when the place is within 20 of a crater cell's corner and
\* the call draws a crater; away from the corners the answer is always the
\* same.
C19_HeightUpToCrater ==
  lastHeight.made =>
    LET x == lastHeight.x
        distance == x - (x \div CraterCell) * CraterCell
        depth == Max(0, CraterDepth - (distance * 4) \div 10)
    IN  /\ lastHeight.earlier \cup {lastHeight.height}
             \subseteq {TerrainBase(x), TerrainBase(x) - depth}
        /\ distance >= CraterReach =>
             lastHeight.earlier \subseteq {lastHeight.height}

(***************************************************************************)
(* Properties of an agent's health.                                        *)
(***************************************************************************)
\* C20: every agent's health is from 0 to its maxHealth in every state,
\* whatever damageEnemy calls with amounts of 0 or more and update ticks
\* led to it.
C20_HealthInRange ==
  \A e \in Agents : 0 <= e.health /\ e.health <= e.maxHealth

\* A scout of health 50 that a damageEnemy call of 60 has just left at -10,
\* destroyed and still in the collection.
C20_Witness ==
  /\ lastOp.op = "damage"
  /\ lastOp.damage = 60
  /\ \E e \in Agents :
       /\ e.id = lastOp.id
       /\ e.type = "scout"
       /\ e.health = -10
       /\ e.destroyed

\* What holds: the health never exceeds maxHealth, an agent whose health is
\* 0 or less is destroyed, and the health is below 0 by less than the
\* largest amount of one call.
C20_HealthAtMostMax ==
  \A e \in Agents :
    /\ e.health <= e.maxHealth
    /\ e.health <= 0 => e.destroyed
    /\ e.health > -60

(***************************************************************************)
(* Properties of the wave pacing under Game3D.                             *)
(***************************************************************************)
\* C21, as it reads for a player without kills: while the player has no
\* kills and fewer than 30 simulated seconds have passed, the wave that
\* initGame dispatched is the only wave dispatched.
C21_OneWaveBeforeThirtySeconds ==
  (stats.kills = 0 /\ simTime < WaveInterval) =>
     /\ currentWave = 1
     /\ \A w \in DOMAIN waveLog : waveLog[w].dispatches = (IF w = 0 THEN 1 ELSE 0)

\* The second frame of a fresh game: no kills, a tenth of a second gone,
\* and three waves dispatched, the last one by this frame's updateGameStats.
C21_Witness ==
  /\ AfterFrame
  /\ nTicks = 2
  /\ stats.kills = 0
  /\ simTime < WaveInterval
  /\ waveTimer < WaveInterval
  /\ currentWave = 3
  /\ stats.level = 3
  /\ waveLog[2].dispatches = 1

\* What holds: every frame of a fresh game raises the level by one and
\* dispatches the next wave, until the five waves are out; no wave is
\* dispatched twice.
C21_WavePerFrame ==
  /\ currentWave = Min(NumWaves, 1 + nTicks)
  /\ stats.level = Min(NumWaves + 1, 1 + nTicks)
  /\ \A w \in DOMAIN waveLog :
       waveLog[w].dispatches = (IF w < currentWave THEN 1 ELSE 0)

(***************************************************************************)
(* Properties of the flyer's behaviour.                                    *)
(***************************************************************************)
\* The state the distance d (squared) asks of a flyer.
FlyerStateAt(d2) ==
  IF d2 < FlyerNear * FlyerNear THEN "retreat"
  ELSE IF d2 > FlyerFar * FlyerFar THEN "chase"
  ELSE "attack"

\* C22: after a behaviour evaluation a flyer is in retreat when its distance
\* to the player is below 10, in chase when it is above 25 and in attack
\* from 10 to 25, whatever its state was before; and an evaluation started
\* from any other state at the same distance ends in the same state.
C22_FlyerStateFromDistance ==
  \A e \in Flyers :
    /\ lastOp.op = "evaluate" => e.behavior = FlyerStateAt(e.evalD2)
    /\ \A b \in StatesOf("flyer") :
         Once([e EXCEPT !.behavior = b]).behavior
           = FlyerStateAt(Dist2(e.x, e.y, playerPos.x, playerPos.y))

\* A flyer that was retreating and, evaluated at exactly 10 from the player,
\* is now attacking.
C22_Witness ==
  /\ lastOp.op = "evaluate"
  /\ \E e \in Flyers :
       /\ e.evalFrom = "retreat"
       /\ e.evalD2 = FlyerNear * FlyerNear
       /\ e.behavior = "attack"

(***************************************************************************)
(* Properties of an agent's attacks.                                       *)
(***************************************************************************)
\* C23: a ground agent fires in a tick only if it is then in the attack
\* state, not farther than attackRange from the player where its movement
\* of the tick left it, and more than 2 s after its previous attack; the
\* tick sets lastAttack to the time of firing, and a tick without firing
\* leaves lastAttack alone.  So two attacks of an agent are more than 2 s
\* apart.
C23_Step ==
  \A i \in 1..Len(enemies) : \A j \in 1..Len(enemies') :
    (enemies[i].id = enemies'[j].id /\ enemies[i].type \in GroundTypes) =>
      LET e == enemies[i]
          f == enemies'[j]
      IN  /\ f.attacks \in {e.attacks, e.attacks + 1}
          /\ f.attacks = e.attacks => f.lastAttack = e.lastAttack
          /\ f.attacks = e.attacks + 1 =>
               /\ lastOp'.op = "tick"
               /\ f.behavior = "attack"
               /\ Dist2(f.x, e.y, playerPos'.x, playerPos'.y)
                    <= f.attackRange * f.attackRange
               /\ now' - e.lastAttack > GroundCooldown
               /\ f.lastAttack = now'

C23_GroundAttackCooldown == [][C23_Step]_vars

\* A ground agent that has just fired for the second time.
C23_Witness ==
  /\ lastOp.op = "tick"
  /\ \E e \in GroundAgents :
       /\ e.attacks = 2
       /\ e.lastAttack = now
       /\ e.behavior = "attack"

(***************************************************************************)
(* Properties of the purge of destroyed agents.                            *)
(***************************************************************************)
IdsOf(ens) == [i \in 1..Len(ens) |-> ens[i].id]
Gone(e) == e.health <= 0 \/ e.destroyed
Kept(e) == ~Gone(e)

\* C24, in a state: after an update tick no agent of the collection has
\* health 0 or less or is destroyed; the per-agent steps of a tick change
\* nothing of a destroyed agent; getEnemies and getEnemyCount count the
\* agents that are not destroyed.
C24_State ==
  /\ lastOp.op = "tick" => \A e \in Agents : Kept(e)
  /\ \A e \in Agents : \A dt \in {5}, p \in {playerPos, FarPlayer} :
       Gone(e) => updateEnemy(e, dt, p, terrainFn, now + dt, StillDraw) = e
  /\ Len(getEnemies(enemies)) = Cardinality({i \in 1..Len(enemies) :
                                               ~enemies[i].destroyed})
  /\ getEnemyCount(enemies) = Len(getEnemies(enemies))

\* C24, over a tick: the agents left are the agents that were neither
\* destroyed nor at health 0 or less, in the order they had, each of them
\* updated.
C24_Step ==
  lastOp'.op = "tick" =>
    /\ IdsOf(enemies') = IdsOf(SelectSeq(enemies, Kept))
    /\ \A i \in 1..Len(enemies') : enemies'[i].updated

C24_PurgeAfterTick == []C24_State /\ [][C24_Step]_vars

\* After a tick: of the two agents spawned the first was destroyed and is
\* gone, the second is left and was updated.
C24_Witness ==
  /\ lastOp.op = "tick"
  /\ enemyCount = 2
  /\ Len(enemies) = 1
  /\ enemies[1].id = 1
  /\ enemies[1].updated
  /\ getEnemyCount(enemies) = 1

(***************************************************************************)
(* Properties of WeaponSystem.                                             *)
(***************************************************************************)
InFlight(ps) == {ps[i] : i \in 1..Len(ps)}
WeaponUpdated == lastOp'.op = "weapon" /\ now' > now
OutOfRange(q) == q.travelled > ProjectileRange

\* C25: a WeaponSystem.update tick advances every projectile that was
\* active when it began once by velocity * dt and checks its range: the
\* projectile is gone when that took it out of range and is there, moved,
\* when not; also when the tick removes another projectile.
C25_Step ==
  WeaponUpdated =>
    \A q \in InFlight(projectiles) :
      LET moved == moveProjectile(q, now' - now)
      IN  IF OutOfRange(moved)
          THEN \A r \in InFlight(projectiles') : r.id # q.id
          ELSE moved \in InFlight(projectiles')

C25_EveryProjectileAdvanced == [][C25_Step]_vars

\* Three shots fired a frame apart.  The update that took the first out of
\* range passed the second by: the second and the third have now travelled
\* equally far.
C25_Witness ==
  /\ lastOp.op = "weapon"
  /\ Len(projectiles) >= 2
  /\ projectiles[2].id = projectiles[1].id + 1
  /\ projectiles[1].id >= 1
  /\ projectiles[1].travelled = projectiles[2].travelled
  /\ projectiles[1].z = projectiles[2].z

\* What holds: a tick advances a projectile once or not at all, and the
\* ones it leaves where they were are those that stood in the array right
\* after a projectile the tick removed.
C25_SkipStep ==
  WeaponUpdated =>
    \A i \in 1..Len(projectiles) :
      LET q == projectiles[i]
          moved == moveProjectile(q, now' - now)
      IN  \/ OutOfRange(moved) /\ \A r \in InFlight(projectiles') : r.id # q.id
          \/ ~OutOfRange(moved) /\ moved \in InFlight(projectiles')
          \/ /\ q \in InFlight(projectiles')
             /\ i > 1
             /\ \A r \in InFlight(projectiles') : r.id # projectiles[i - 1].id

C25_SkippedAfterRemoved == [][C25_SkipStep]_vars

\* C26: a projectile is used up by its first hit; checkCollisions finds at
\* most one hit for every projectile it walks, so a frame calls damageEnemy
\* and credits the 100 points of a hit at most once for each projectile.
C26_OneHitPerProjectile ==
  AfterFrame =>
    /\ tickLog.hits <= Len(tickLog.shots)
    /\ stats.score <= HitScore * weapon.count

\* A frame with one projectile in the air and two live agents: the
\* projectile hit both, damageEnemy was called twice and 200 points were
\* credited; the projectile is gone.
C26_Witness ==
  /\ AfterFrame
  /\ Len(tickLog.shots) = 1
  /\ weapon.count = 1
  /\ tickLog.meshes = 2
  /\ tickLog.hits = 2
  /\ stats.score = 2 * HitScore
  /\ projectiles = <<>>

\* What holds: a projectile hits every mesh of the frame that it is within
\* 1.5 of and no mesh in a later frame; once it has hit it is out of the
\* collection.
C26_HitsWithinOneFrame ==
  /\ AfterFrame =>
       /\ tickLog.hits <= Len(tickLog.shots) * tickLog.meshes
       /\ tickLog.hits >= 1 => Len(projectiles) < Len(tickLog.shots)
  /\ stats.score <= HitScore * weapon.count * MaxFiringEnemies

(***************************************************************************)
(* Properties of Player3D.                                                 *)
(***************************************************************************)
Obstacles == {colliders[i] : i \in {j \in 1..Len(colliders) :
                                      colliders[j].type \in {"box", "sphere"}}}
\* The player of a frame with KeyD held, moved by its velocity and not yet
\* checked for collisions.
MovedPlayer == applyVelocity(handleMovement(player, "KeyD"), now' - now)
\* The shape test of an obstacle on a player's sphere.
ObstacleTest(pl, c) ==
  checkColliderCollision([x |-> pl.x, y |-> pl.y], DefaultRadius, c, FALSE)
\* The test pushes: a collision with a depth and a direction.
Pushes(r) == r.hasCollision /\ r.distance > 0 /\ (r.nx # 0 \/ r.ny # 0)

\* C27: in a tick in which the moved player sphere overlaps a box or sphere
\* obstacle, the push-out of that obstacle is applied, on the ground as in
\* the air: the tick leaves the player moved out along the obstacle's
\* normal by the depth of the overlap, and no longer pressed into it.
C27_Step ==
  lastOp'.op \in {"frame", "start"} =>
    \A c \in Obstacles :
      LET r == ObstacleTest(MovedPlayer, c)
      IN  Pushes(r) =>
            /\ player'.x = MovedPlayer.x + Toward0(r.nx * r.distance, 1, UnitScale)
            /\ ~Pushes(ObstacleTest(player', c))

C27_ObstaclePushOut == [][C27_Step]_vars

\* The player on the ground three tenths into the face of the structure
\* after a frame: the frame clamped it to the ground and did not push it
\* out.
C27_Witness ==
  /\ AfterFrame
  /\ player.grounded
  /\ player.x = 258
  /\ player.y = TerrainBase(player.x) + DefaultRadius
  /\ Pushes(ObstacleTest(player, Structure))
  /\ ObstacleTest(player, Structure).distance = 3

\* What holds: a tick in which the ground plane reports a collision for the
\* moved sphere resolves that collision and no other; the player is where
\* its velocity took it along x, and not lower.
C27_GroundStep ==
  lastOp'.op \in {"frame", "start"} =>
    \/ \A roll \in BOOLEAN :
         ~checkPlaneCollision([x |-> MovedPlayer.x, y |-> MovedPlayer.y],
                              DefaultRadius, Ground, roll).hasCollision
    \/ /\ player'.x = MovedPlayer.x
       /\ player'.y >= MovedPlayer.y

C27_GroundOnly == [][C27_GroundStep]_vars

(***************************************************************************)
(* Properties of the wave pointer.                                         *)
(***************************************************************************)
CompletedWaves(cmp) == {w \in 0..(NumWaves - 1) : cmp[w]}
\* The completed waves are the waves below the pointer.
PrefixCompleted(cmp, cw) == CompletedWaves(cmp) = 0..(cw - 1)
\* A call as Game3D makes it: spawnWave(0) on a fresh scheduler, or
\* spawnWave().
GameStyleCall ==
  /\ lastOp'.op = "spawnWave"
  /\ \/ lastOp'.id = -1
     \/ lastOp'.id = 0 /\ currentWave = 0 /\ CompletedWaves(completed) = {}

\* C28, in a state: the pointer is the number of waves whose completed flag
\* is set and is at most the number of waves; a wave has been dispatched
\* once when its flag is set and never when not.
C28_State ==
  /\ currentWave = Cardinality(CompletedWaves(completed))
  /\ currentWave <= NumWaves
  /\ \A w \in 0..(NumWaves - 1) :
       waveLog[w].dispatches = (IF completed[w] THEN 1 ELSE 0)

\* C28, over a step: the pointer never decreases and no flag is cleared;
\* a call as Game3D makes it, on a scheduler whose completed waves are
\* those below the pointer, leaves one of which that is true again.
C28_Step ==
  /\ currentWave' >= currentWave
  /\ CompletedWaves(completed) \subseteq CompletedWaves(completed')
  /\ (GameStyleCall /\ PrefixCompleted(completed, currentWave)) =>
        PrefixCompleted(completed', currentWave')

C28_PointerCountsCompleted == []C28_State /\ [][C28_Step]_vars

\* The fifth spawnWave() call of a caller that began with spawnWave(0): it
\* found the last wave fresh, and now all five waves are completed and the
\* pointer is 5.
C28_Witness ==
  /\ lastOp.op = "spawnWave"
  /\ lastOp.id = -1
  /\ lastOp.pre = "fresh"
  /\ currentWave = NumWaves
  /\ PrefixCompleted(completed, currentWave)
  /\ \A w \in 0..(NumWaves - 1) : waveLog[w].dispatches = 1

(***************************************************************************)
(* Properties of the animation loop.                                       *)
(***************************************************************************)
\* C29: whatever the order of start(), stop() and the animation frames, at
\* most one gameLoop callback is pending, so an animation frame runs update
\* at most once.
C29_OneLoop == pending <= 1

\* The game running with two callbacks pending: stop() and then start()
\* were called before the callback pending from the frame before had run.
C29_Witness ==
  /\ isRunning
  /\ ~stopped
  /\ pending = 2
  /\ lastOp.op = "start"

\* What holds: a running game has a callback pending, start() while
\* running adds none, and every start() after a stop() adds one to those
\* still pending.
C29_Step ==
  /\ isRunning => pending >= 1
  /\ isRunning /\ isRunning' => pending' = pending
  /\ lastOp'.op = "start" => pending' = pending + 1
  /\ pending' >= pending - 1

C29_LoopPerStart == [][C29_Step]_vars

(***************************************************************************)
(* Properties of the ammunition.                                           *)
(***************************************************************************)
\* fire() goes through: 200 ms since the last shot, and a round left.
FireAllowed == now - weapon.lastFired >= FireRate /\ weapon.ammo > 0

\* C30: currentAmmo stays from 0 to maxAmmo; a fire() that goes through
\* takes 1 from it and one that does not leaves it alone; it goes up only
\* from 0, to maxAmmo, so a reload callback never raises a count above 0.
C30_Step ==
  /\ weapon'.ammo \in 0..MaxAmmo
  /\ lastOp'.op = "fire" =>
       weapon'.ammo = (IF FireAllowed THEN weapon.ammo - 1 ELSE weapon.ammo)
  /\ weapon'.ammo > weapon.ammo => weapon.ammo = 0 /\ weapon'.ammo = MaxAmmo
  /\ lastOp'.op = "reload" => weapon.ammo = 0

C30_ReloadOnlyWhenEmpty == [][C30_Step]_vars

\* A reload callback has just set the ammunition to 30 after 31 shots: the
\* magazine had been reloaded by an earlier callback and one round fired
\* from it.
C30_Witness ==
  /\ lastOp.op = "reload"
  /\ weapon.ammo = MaxAmmo
  /\ weapon.count = MaxAmmo + 1

\* What holds: the ammunition stays from 0 to maxAmmo, a fire() that goes
\* through takes 1 from it, and only a reload callback raises it, to
\* maxAmmo; every update with no round left hands one more callback to
\* setTimeout.
C30_AmmoStep ==
  /\ weapon'.ammo \in 0..MaxAmmo
  /\ lastOp'.op = "fire" =>
       weapon'.ammo = (IF FireAllowed THEN weapon.ammo - 1 ELSE weapon.ammo)
  /\ weapon'.ammo > weapon.ammo =>
       lastOp'.op = "reload" /\ weapon'.ammo = MaxAmmo
  /\ (WeaponUpdated /\ weapon.ammo = 0) => Len(reloads') = Len(reloads) + 1

C30_AmmoInRange == [][C30_AmmoStep]_vars

=============================================================================
